---- MODULE Spec2Model ----
(***************************************************************************)
(* Persistence core of the RPG Maker MZ MCP server: FileHandler (atomic    *)
(* JSON writes with .bak backup), VersionSync (the versionId ledger in     *)
(* System.json) and DatabaseManager (CRUD over null-headed entity arrays). *)
(*                                                                         *)
(* Every awaited filesystem call of an invocation is one step, so every    *)
(* state between two awaits is a state of the model.  A filesystem call    *)
(* that can fail is followed by both outcomes.                             *)
(*                                                                         *)
(* Spec:   one tool invocation runs at a time, from an empty directory.    *)
(* SpecVS: bump() and current() called directly on a loaded project.       *)
(* SpecCo: two create invocations in flight together.                      *)
(* SpecFH: writeJson and readJson called directly on one path.             *)
(* SpecPM: validate() and getInfo() called on a directory as found.        *)
(* SpecQ:  list() and search() called on a document as found.              *)
(* SpecTool: the entity tool handlers, from a server with no project.      *)
(* SpecMap: create_map and delete_map on a loaded project.                 *)
(* SpecEv: create_event, delete_event and add_event_commands on a map.     *)
(* SpecCP: create_project called on a directory as found.                  *)
(***************************************************************************)
EXTENDS Integers, Sequences, FiniteSets, TLC

\* ------------------------------------------------------------------ bounds

\* Longest entity array (JS length, slot 0 included) a create may produce.
MaxLen == 3
\* Number of successful create/update/delete calls in one behaviour.
MaxMuts == 3
\* Number of filesystem calls that fail in one behaviour.
MaxFaults == 1
\* Highest map id a create_map may assign.
MaxMaps == 3
\* Longest events array (slot 0 included) a create_event may extend.
MaxEvents == 3
\* Number of changes the ledger counts in a behaviour of the event tools.
MaxChanges == 2
\* Number of required data files, other than Actors.json, Items.json and
\* System.json, that a project directory lacks.
MaxMissing == 2

\* ------------------------------------------------------------- JSON values

\* A JSON scalar carries its JavaScript type, so that typeof can be asked.
Num(n) == [type |-> "number", val |-> n]
Str(s) == [type |-> "string", val |-> s]
Null == [type |-> "null"]
TypeOf(v) == v.type

\* { ...base, ...over }: every key of both, the value of over where it has one.
Spread(base, over) ==
  [k \in (DOMAIN base) \cup (DOMAIN over) |->
     IF k \in DOMAIN over THEN over[k] ELSE base[k]]

\* A JavaScript array is a sequence; JS index i is position i + 1.
At(a, i) == a[i + 1]
SetAt(a, i, v) == [a EXCEPT ![i + 1] = v]

\* --------------------------------------------------------------- the files

Docs == {"Actors.json"}
SystemPath == "System.json"
Paths == Docs \cup {SystemPath}

\* What a path holds: nothing, a document cut short, or a complete JSON text.
Absent == <<>>
Partial == <<"partial">>
\* JSON.stringify(data, null, 2) + '\n': the text of a JSON-clean value.
Stringify(data) == <<"json", data>>
IsJson(content) == Len(content) = 2 /\ content[1] = "json"
\* JSON.parse of a complete text.
Parse(content) == content[2]

VARIABLES
  file,      \* file[p]: content at path p
  bak,       \* bak[p]:  content at p + ".bak"
  tmp,       \* tmp[p]:  content at p + ".tmp"
  pc,        \* where the running invocation stands
  op,        \* the running invocation and its arguments
  arr,       \* DatabaseManager's local array, as mutated in memory
  wpath,     \* writeJson's filePath
  wdata,     \* writeJson's data
  result,    \* the last invocation: its name, and what it returned or threw
  faults,    \* number of filesystem calls that have failed
  everHeld,  \* history: everHeld[d] = ids that ever held a record in d
  v0,        \* history: current() when System.json was laid down
  muts,      \* history: number of create/update/delete calls that returned
  seeded,    \* history: seeded[d] = the array d was laid down with
  created,   \* history: created[d] = number of creates that have written d
  passed,    \* history: passed[i] = number of times System.json was replaced
             \* since invocation i read it for its bump
  project    \* currentProject of project-tools.ts: the loaded project, or none

vars == <<file, bak, tmp, pc, op, arr, wpath, wdata, result, faults, everHeld, v0, muts,
          seeded, created, passed, project>>

fsVars == <<file, bak, tmp>>
\* The history variables and the project handle: what no step of FileHandler,
\* VersionSync or DatabaseManager changes but those that say so.
histVars == <<everHeld, v0, muts, seeded, created, passed, project>>

\* currentProject: null, or the ProjectManager of the one project directory.
NoProject == "none"
Loaded == "loaded"

\* The tool invocations that can be in flight together.
Procs == {1, 2}

\* ----------------------------------------------------------- default data

\* defaultFactory(id): a fully populated record of the concrete type.
DefaultFactory(id) == [id |-> Num(id), name |-> Str(""), value |-> Num(0)]

\* Caller data of create and update: a partial record, alone and carrying
\* an id of its own.
PartialData ==
  { [name |-> Str("a")],
    [id |-> Num(9), name |-> Str("a")] }

NoData == <<>>

\* Documents as laid down: [null], and [null, {id: 1, name: "First", value: 10}].
SeedArrays ==
  { <<Null>>,
    <<Null, [id |-> Num(1), name |-> Str("First"), value |-> Num(10)]>> }

\* System.json as laid down: versionId a number (an existing project's),
\* missing (defaultSystem has none), or not a number.
SeedSystems ==
  { [gameTitle |-> Str("g"), versionId |-> Num(5)],
    [gameTitle |-> Str("g")],
    [gameTitle |-> Str("g"), versionId |-> Str("7")] }

Seeds(p) == IF p = SystemPath THEN SeedSystems ELSE SeedArrays

\* --------------------------------------------------------------- VersionSync

\* As VersionOf, coercing instead of testing the type: Number(versionId) || 0,
\* which reads the string "7" as 7.
VersionOfCoerced(system) ==
  IF "versionId" \in DOMAIN system
    THEN IF TypeOf(system.versionId) = "number" THEN system.versionId.val
         ELSE IF system.versionId = Str("7") THEN 7
         ELSE 0
    ELSE 0

\* typeof system.versionId === 'number' ? system.versionId : 0
VersionOf(system) ==
  IF "versionId" \in DOMAIN system /\ TypeOf(system.versionId) = "number"
    THEN system.versionId.val
    ELSE 0

\* As Bumped, without the typeof test: versionId + 1 on a string appends "1".
BumpedUntyped(system) ==
  IF "versionId" \in DOMAIN system /\ TypeOf(system.versionId) = "number"
    THEN Spread(system, [versionId |-> Num(system.versionId.val + 1)])
    ELSE Spread(system, [versionId |-> Str("71")])

\* As Bumped, writing a document of the counter alone: { versionId: next }.
BumpedAlone(system) == [versionId |-> Num(VersionOf(system) + 1)]

\* As Bumped, with the typeof test inverted: a numeric versionId counts as 0
\* and a string one has "1" appended.
BumpedInverted(system) ==
  IF "versionId" \in DOMAIN system /\ TypeOf(system.versionId) = "number"
    THEN Spread(system, [versionId |-> Num(1)])
    ELSE Spread(system, [versionId |-> Str("71")])

\* bump(): system.versionId = current + 1, every other field kept.
Bumped(system) == Spread(system, [versionId |-> Num(VersionOf(system) + 1)])

\* current() on the disk as it stands (System.json present).
Current == VersionOf(Parse(file[SystemPath]))

\* ----------------------------------------------------------- DatabaseManager

\* As NotFound, without the test of the slot: id < 1 || id >= arr.length.
NotFoundBoundsOnly(a, id) == id < 1 \/ id >= Len(a)

\* id < 1 || id >= arr.length || arr[id] === null
NotFound(a, id) == id < 1 \/ id >= Len(a) \/ At(a, id) = Null

\* As NewEntity, with the caller's fields spread last: { ...default, id, ...data }.
NewEntityCallerWins(id, data) ==
  Spread(Spread(DefaultFactory(id), [id |-> Num(id)]), data)

\* As NewEntity, with the spreads in the other order: { ...data, ...default, id }.
NewEntityDefaultWins(id, data) ==
  Spread(Spread(data, DefaultFactory(id)), [id |-> Num(id)])

\* create: { ...this.defaultFactory(id), ...data, id }
NewEntity(id, data) == Spread(Spread(DefaultFactory(id), data), [id |-> Num(id)])

\* As Updated, replacing the record by the caller's data: { ...data, id }.
UpdatedReplace(existing, data, id) == Spread(data, [id |-> Num(id)])

\* update: { ...existing, ...data, id }
Updated(existing, data, id) == Spread(Spread(existing, data), [id |-> Num(id)])

\* As NextId, filling the lowest hole first (the way event slots are assigned).
NextIdLowestHole(a) ==
  IF \E i \in 1..(Len(a) - 1) : At(a, i) = Null
    THEN CHOOSE i \in 1..(Len(a) - 1) :
           At(a, i) = Null /\ \A j \in 1..(i - 1) : At(a, j) # Null
    ELSE Len(a)

\* As NextId, counting the records: the number of non-null slots plus one.
NextIdCountRecords(a) == Cardinality({i \in 1..(Len(a) - 1) : At(a, i) # Null}) + 1

\* As NextId, taking the id after the last record: 1 + the highest id in use.
NextIdLastRecord(a) ==
  IF \E i \in 1..(Len(a) - 1) : At(a, i) # Null
    THEN 1 + CHOOSE i \in 1..(Len(a) - 1) :
               At(a, i) # Null /\ \A j \in (i + 1)..(Len(a) - 1) : At(a, j) = Null
    ELSE 1

\* create: const id = arr.length
NextId(a) == Len(a)

\* As Deleted, removing the slot: arr.splice(id, 1).
DeletedSplice(a, id) == SubSeq(a, 1, id) \o SubSeq(a, id + 2, Len(a))

\* As Deleted, cutting the array at the slot: arr.length = id.
DeletedTruncate(a, id) == SubSeq(a, 1, id)

\* delete: arr[id] = null
Deleted(a, id) == SetAt(a, id, Null)

\* As Protected, with the guard dropped.
ProtectedNever(id, protectFirst) == FALSE

\* delete: protectFirst && id === 1
Protected(id, protectFirst) == protectFirst /\ id = 1

\* As List, dropping slot 0 only.
ListAfterSentinel(a) == Tail(a)

\* list(): arr.filter(e => e !== null)
List(a) == SelectSeq(a, LAMBDA e : e # Null)

\* ids of the slots of a that hold a record
HeldIds(a) == { i \in 1..(Len(a) - 1) : At(a, i) # Null }

\* ------------------------------------------------------------------- calls

Idle == "idle"

NoOp == [name |-> "none", path |-> "none", id |-> 0, data |-> NoData, protect |-> FALSE]

Call(name, p, id, data, protect) ==
  [name |-> name, path |-> p, id |-> id, data |-> data, protect |-> protect]

Pending(name, value) == [call |-> name, status |-> "pending", value |-> value]
Returned(name, value) == [call |-> name, status |-> "ok", value |-> value]
Thrown(name, kind) == [call |-> name, status |-> kind, value |-> Null]

Mutators == {"create", "update", "delete"}
\* The ids callers pass: in range, 0 and one past the longest array.
Ids == 0..MaxLen

Init ==
  /\ file = [p \in Paths |-> Absent]
  /\ bak = [p \in Paths |-> Absent]
  /\ tmp = [p \in Paths |-> Absent]
  /\ pc = Idle
  /\ op = NoOp
  /\ arr = <<>>
  /\ wpath = "none"
  /\ wdata = <<>>
  /\ result = Returned("none", Null)
  /\ faults = 0
  /\ everHeld = [d \in Docs |-> {}]
  /\ v0 = 0
  /\ muts = 0
  /\ seeded = [d \in Docs |-> <<>>]
  /\ created = [d \in Docs |-> 0]
  /\ passed = [i \in Procs |-> 0]
  /\ project = Loaded

\* The invocation ends: its arguments and locals go out of scope.
End(res) ==
  /\ pc' = Idle
  /\ op' = NoOp
  /\ arr' = <<>>
  /\ wpath' = "none"
  /\ wdata' = <<>>
  /\ result' = res

\* The running invocation throws.
Throw(kind) == End(Thrown(op.name, kind))

\* A filesystem call fails for a reason of the environment (disk full, no
\* permission): one of the MaxFaults failures of the behaviour.
Fault ==
  /\ faults < MaxFaults
  /\ faults' = faults + 1

\* An invocation that returns or throws before it writes anything.
Finish(res) ==
  /\ End(res)
  /\ UNCHANGED <<fsVars, faults, histVars>>

\* FileHandler.writeJson(filePath, data) is entered.
WriteJson(p, data, a, value) ==
  /\ arr' = a
  /\ wpath' = p
  /\ wdata' = data
  /\ result' = Pending(op'.name, value)
  /\ pc' = "backup"
  /\ UNCHANGED <<fsVars, faults, histVars>>

\* writeArray(data), line 37: writeJson(this.filePath, data); the bump of
\* line 38 follows once it has returned (AfterWrite).
WriteArray(a, value) ==
  /\ op' = op
  /\ WriteJson(op.path, a, a, value)

\* A direct FileHandler.writeJson(p, data) of a brand-new file, as the project
\* scaffolding and the test set-up issue it.
Scaffold(p, data) ==
  /\ pc = Idle
  /\ file[p] = Absent
  /\ op' = Call("writeJson", p, 0, NoData, FALSE)
  /\ WriteJson(p, data, <<>>, Null)

\* A method of the DatabaseManager of document d is called.  The bounds end
\* the behaviour: no mutation after MaxMuts, no create on a document of
\* length MaxLen.
Invoke(call) ==
  /\ pc = Idle
  /\ call.name \in Mutators => muts < MaxMuts
  /\ (call.name = "create" /\ IsJson(file[call.path]))
       => Len(Parse(file[call.path])) < MaxLen
  /\ op' = call
  /\ pc' = "entered"
  /\ result' = Pending(call.name, Null)
  /\ UNCHANGED <<fsVars, arr, wpath, wdata, faults, histVars>>

\* The running invocation is of method name and stands at its first statement.
Entered(name) == pc = "entered" /\ op.name = name

\* readArray() throws: the document was never laid down.
ReadFail ==
  /\ pc = "entered"
  /\ ~(op.name = "delete" /\ Protected(op.id, op.protect))
  /\ ~IsJson(file[op.path])
  /\ Finish(Thrown(op.name, "IOError"))

\* list()
ListCall ==
  /\ Entered("list")
  /\ IsJson(file[op.path])
  /\ Finish(Returned("list", List(Parse(file[op.path]))))

\* get(id) on the array a
GetResult(a, id) ==
  IF NotFound(a, id) THEN Thrown("get", "NotFound") ELSE Returned("get", At(a, id))

\* get(id)
Get ==
  /\ Entered("get")
  /\ IsJson(file[op.path])
  /\ Finish(GetResult(Parse(file[op.path]), op.id))

\* As Create, returning the caller's data under the new id instead of the
\* record that was stored.
CreateReturnsData ==
  /\ Entered("create")
  /\ IsJson(file[op.path])
  /\ LET a == Parse(file[op.path])
         id == NextId(a)
         entity == NewEntity(id, op.data)
     IN WriteArray(Append(a, entity),
                   [id |-> id, entity |-> Spread(op.data, [id |-> Num(id)])])

\* create(data), up to the call of writeJson.
Create ==
  /\ Entered("create")
  /\ IsJson(file[op.path])
  /\ LET a == Parse(file[op.path])
         id == NextId(a)
         entity == NewEntity(id, op.data)
     IN WriteArray(Append(a, entity), [id |-> id, entity |-> entity])

\* update(id, data), up to the call of writeJson.
Update ==
  /\ Entered("update")
  /\ IsJson(file[op.path])
  /\ LET a == Parse(file[op.path])
     IN IF NotFound(a, op.id)
          THEN Finish(Thrown("update", "NotFound"))
          ELSE LET updated == Updated(At(a, op.id), op.data, op.id)
               IN WriteArray(SetAt(a, op.id, updated), updated)

\* As Delete, made idempotent: a delete of a missing id writes the array
\* back as it is and returns.
DeleteIdempotent ==
  /\ Entered("delete")
  /\ IF Protected(op.id, op.protect)
       THEN Finish(Thrown("delete", "Protected"))
       ELSE /\ IsJson(file[op.path])
            /\ LET a == Parse(file[op.path])
               IN WriteArray(IF NotFound(a, op.id) THEN a ELSE Deleted(a, op.id), Null)

\* delete(id, protectFirst), up to the call of writeJson.
Delete ==
  /\ Entered("delete")
  /\ IF Protected(op.id, op.protect)
       THEN Finish(Thrown("delete", "Protected"))
       ELSE /\ IsJson(file[op.path])
            /\ LET a == Parse(file[op.path])
               IN IF NotFound(a, op.id)
                    THEN Finish(Thrown("delete", "NotFound"))
                    ELSE WriteArray(Deleted(a, op.id), Null)

\* As BackupSkip, clearing a backup left from an earlier file at the path.
BackupSkipDropsStale ==
  /\ pc = "backup"
  /\ file[wpath] = Absent
  /\ bak' = [bak EXCEPT ![wpath] = Absent]
  /\ pc' = "tmpwrite"
  /\ UNCHANGED <<file, tmp, op, arr, wpath, wdata, result, faults, histVars>>

\* writeJson, lines 42-48: fs.access fails, there is nothing to back up.
BackupSkip ==
  /\ pc = "backup"
  /\ file[wpath] = Absent
  /\ pc' = "tmpwrite"
  /\ UNCHANGED <<fsVars, op, arr, wpath, wdata, result, faults, histVars>>

\* writeJson, lines 42-45: the file exists and fs.copyFile completes.
BackupCopy ==
  /\ pc = "backup"
  /\ file[wpath] # Absent
  /\ bak' = [bak EXCEPT ![wpath] = file[wpath]]
  /\ pc' = "tmpwrite"
  /\ UNCHANGED <<file, tmp, op, arr, wpath, wdata, result, faults, histVars>>

\* Where writeJson stands after a failed fs.copyFile: the catch of lines
\* 46-48 swallows the error and the write goes on.
AfterCopyFailure == "tmpwrite"

\* writeJson, lines 42-48: fs.copyFile fails, leaving the old backup or a cut
\* one.
BackupFail ==
  /\ pc = "backup"
  /\ file[wpath] # Absent
  /\ Fault
  /\ \E left \in {bak[wpath], Partial} : bak' = [bak EXCEPT ![wpath] = left]
  /\ IF AfterCopyFailure = Idle
       THEN Throw("IOError")
       ELSE /\ pc' = AfterCopyFailure
            /\ UNCHANGED <<op, arr, wpath, wdata, result>>
  /\ UNCHANGED <<file, tmp, histVars>>

\* writeJson, lines 51-52: fs.writeFile(tmpPath, json) completes.
TmpWrite ==
  /\ pc = "tmpwrite"
  /\ tmp' = [tmp EXCEPT ![wpath] = Stringify(wdata)]
  /\ pc' = "rename"
  /\ UNCHANGED <<file, bak, op, arr, wpath, wdata, result, faults, histVars>>

\* As AfterTmpFailure, with the error swallowed the way the backup's is.
AfterTmpFailureSwallowed == "rename"

\* Where writeJson stands after a failed fs.writeFile: nothing catches the
\* error, the invocation ends.
AfterTmpFailure == Idle

\* As TmpWriteFail, had writeJson written the target in place: the failed
\* fs.writeFile cuts the target itself.
TmpWriteFailInPlace ==
  /\ pc = "tmpwrite"
  /\ Fault
  /\ file' = [file EXCEPT ![wpath] = Partial]
  /\ Throw("IOError")
  /\ UNCHANGED <<bak, tmp, histVars>>

\* writeJson, line 52: fs.writeFile fails, leaving the temp file as it was or
\* a cut one.
TmpWriteFail ==
  /\ pc = "tmpwrite"
  /\ Fault
  /\ \E left \in {tmp[wpath], Partial} : tmp' = [tmp EXCEPT ![wpath] = left]
  /\ IF AfterTmpFailure = Idle
       THEN Throw("IOError")
       ELSE /\ pc' = AfterTmpFailure
            /\ UNCHANGED <<op, arr, wpath, wdata, result>>
  /\ UNCHANGED <<file, bak, histVars>>

\* The map tools that write, and the catalogue of the maps.
MapTools == {"create_map", "delete_map"}
MapInfosPath == "MapInfos.json"

\* The project file create_project looks for and lays down.
MarkerPath == "Game.rmmzproject"

\* The event tools that write.
EventTools == {"create_event", "delete_event", "add_event_commands"}

\* What follows a completed writeJson(p): writeArray goes on to bump(), line
\* 38; create_map goes from the map file on to MapInfos.json, and both map
\* tools from MapInfos.json to bump(); the event tools go from the map file
\* to bump(); bump and a direct call hand back to the invocation, which
\* returns.  create_project goes from the project file to System.json, on
\* to the database files and then to the loading of the project.
AfterWrite(p) ==
  IF op.name = "create_project"
    THEN IF p = MarkerPath THEN "system" ELSE IF p = SystemPath THEN "dbfiles" ELSE "load"
  ELSE IF p = SystemPath THEN "return"
  ELSE IF op.name \in Mutators THEN "bump"
  ELSE IF op.name \in MapTools THEN IF p = MapInfosPath THEN "bump" ELSE "mapinfos"
  ELSE IF op.name \in EventTools THEN "bump"
  ELSE "return"

\* As Rename, copying the temp file over the target instead of moving it.
RenameByCopy ==
  /\ pc = "rename"
  /\ file' = [file EXCEPT ![wpath] = tmp[wpath]]
  /\ everHeld' = IF wpath \in Docs
                   THEN [everHeld EXCEPT ![wpath] = @ \cup HeldIds(wdata)]
                   ELSE everHeld
  /\ seeded' = IF wpath \in Docs /\ op.name = "writeJson"
                 THEN [seeded EXCEPT ![wpath] = wdata]
                 ELSE seeded
  /\ created' = IF wpath \in Docs /\ op.name = "create"
                  THEN [created EXCEPT ![wpath] = @ + 1]
                  ELSE created
  /\ pc' = AfterWrite(wpath)
  /\ UNCHANGED <<bak, tmp, op, arr, wpath, wdata, result, faults, v0, muts, passed, project>>

\* writeJson, line 53: fs.rename(tmpPath, filePath) replaces the target.
Rename ==
  /\ pc = "rename"
  /\ file' = [file EXCEPT ![wpath] = tmp[wpath]]
  /\ tmp' = [tmp EXCEPT ![wpath] = Absent]
  /\ everHeld' = IF wpath \in Docs
                   THEN [everHeld EXCEPT ![wpath] = @ \cup HeldIds(wdata)]
                   ELSE everHeld
  /\ seeded' = IF wpath \in Docs /\ op.name = "writeJson"
                 THEN [seeded EXCEPT ![wpath] = wdata]
                 ELSE seeded
  /\ created' = IF wpath \in Docs /\ op.name = "create"
                  THEN [created EXCEPT ![wpath] = @ + 1]
                  ELSE created
  /\ pc' = AfterWrite(wpath)
  /\ UNCHANGED <<bak, op, arr, wpath, wdata, result, faults, v0, muts, passed, project>>

\* As AfterRenameFailure, with a failed rename of a document swallowed, so
\* that writeArray goes on to bump().
AfterRenameFailureSwallowed(p) == IF p \in Docs THEN "bump" ELSE Idle

\* Where the invocation stands after a failed fs.rename of writeJson(p):
\* nothing catches the error, the invocation ends.
AfterRenameFailure(p) == Idle

\* writeJson, line 53: fs.rename fails; the temp file stays behind.
RenameFail ==
  /\ pc = "rename"
  /\ Fault
  /\ IF AfterRenameFailure(wpath) = Idle
       THEN Throw("IOError")
       ELSE /\ pc' = AfterRenameFailure(wpath)
            /\ UNCHANGED <<op, arr, wpath, wdata, result>>
  /\ UNCHANGED <<fsVars, histVars>>

\* The invocation returns: create returns {id, entity}, update the merged
\* record, delete and a direct writeJson nothing.
Return ==
  /\ pc = "return"
  /\ End(Returned(op.name, result.value))
  /\ v0' = IF op.name = "writeJson" /\ wpath = SystemPath THEN VersionOf(wdata) ELSE v0
  /\ muts' = IF op.name \in Mutators THEN muts + 1 ELSE muts
  /\ UNCHANGED <<fsVars, faults, everHeld, seeded, created, passed, project>>

\* bump(), lines 21-25: System.json is read, versionId set, writeJson entered.
BumpRead ==
  /\ pc = "bump"
  /\ IsJson(file[SystemPath])
  /\ wpath' = SystemPath
  /\ wdata' = Bumped(Parse(file[SystemPath]))
  /\ pc' = "backup"
  /\ UNCHANGED <<fsVars, op, arr, result, faults, histVars>>

\* bump(), line 21: System.json was never laid down; readJsonRaw throws.
BumpReadFail ==
  /\ pc = "bump"
  /\ ~IsJson(file[SystemPath])
  /\ Throw("IOError")
  /\ UNCHANGED <<fsVars, faults, histVars>>

\* The calls the callers make: every method, on every document, with ids in
\* and out of range and data with and without an id.
Calls ==
  {Call("list", d, 0, NoData, FALSE) : d \in Docs}
    \cup {Call("get", d, id, NoData, FALSE) : d \in Docs, id \in Ids}
    \cup {Call("create", d, 0, data, FALSE) : d \in Docs, data \in PartialData}
    \cup {Call("update", d, id, data, FALSE) : d \in Docs, id \in Ids, data \in PartialData}
    \cup {Call("delete", d, id, NoData, prot) : d \in Docs, id \in Ids, prot \in BOOLEAN}

Next ==
  \/ \E p \in Paths : \E data \in Seeds(p) : Scaffold(p, data)
  \/ \E call \in Calls : Invoke(call)
  \/ ReadFail
  \/ ListCall
  \/ Get
  \/ Create
  \/ Update
  \/ Delete
  \/ BackupSkip
  \/ BackupCopy
  \/ BackupFail
  \/ TmpWrite
  \/ TmpWriteFail
  \/ Rename
  \/ RenameFail
  \/ Return
  \/ BumpRead
  \/ BumpReadFail

Spec == Init /\ [][Next]_vars

\* ------------------------------------------------- VersionSync on its own

\* The methods of VersionSync, as the tools and getInfo call them.
VSCalls ==
  { Call("bump", SystemPath, 0, NoData, FALSE),
    Call("current", SystemPath, 0, NoData, FALSE) }

\* A project is loaded: a VersionSync stands on its data directory, whose
\* System.json holds a counter, none, one that is no number, or is missing.
InitVS ==
  /\ \E content \in {Stringify(system) : system \in SeedSystems} \cup {Absent} :
       /\ file = [p \in Paths |-> IF p = SystemPath THEN content ELSE Absent]
       /\ v0 = IF IsJson(content) THEN VersionOf(Parse(content)) ELSE 0
  /\ bak = [p \in Paths |-> Absent]
  /\ tmp = [p \in Paths |-> Absent]
  /\ pc = Idle
  /\ op = NoOp
  /\ arr = <<>>
  /\ wpath = "none"
  /\ wdata = <<>>
  /\ result = Returned("none", Null)
  /\ faults = 0
  /\ everHeld = [d \in Docs |-> {}]
  /\ muts = 0
  /\ seeded = [d \in Docs |-> <<>>]
  /\ created = [d \in Docs |-> 0]
  /\ passed = [i \in Procs |-> 0]
  /\ project = Loaded

\* bump() or current() is called.  The bound ends the behaviour: no bump once
\* the counter is MaxMuts ahead.
InvokeVS(call) ==
  /\ pc = Idle
  /\ (call.name = "bump" /\ IsJson(file[SystemPath])) => Current < v0 + MaxMuts
  /\ op' = call
  /\ pc' = "entered"
  /\ result' = Pending(call.name, Null)
  /\ UNCHANGED <<fsVars, arr, wpath, wdata, faults, histVars>>

\* bump(), lines 21-27: System.json is read, next = current + 1 is set and
\* writeJson entered; next is what bump will return.
BumpCall ==
  /\ Entered("bump")
  /\ IsJson(file[SystemPath])
  /\ op' = op
  /\ LET system == Parse(file[SystemPath])
     IN WriteJson(SystemPath, Bumped(system), <<>>, Num(VersionOf(system) + 1))

\* current(), lines 34-35.
CurrentCall ==
  /\ Entered("current")
  /\ IsJson(file[SystemPath])
  /\ Finish(Returned("current", Num(VersionOf(Parse(file[SystemPath])))))

NextVS ==
  \/ \E call \in VSCalls : InvokeVS(call)
  \/ ReadFail
  \/ BumpCall
  \/ CurrentCall
  \/ BackupCopy
  \/ BackupFail
  \/ TmpWrite
  \/ TmpWriteFail
  \/ Rename
  \/ RenameFail
  \/ Return

SpecVS == InitVS /\ [][NextVS]_vars

\* ------------------------------------------- overlapping tool invocations

\* Tool handlers are async functions: an invocation gives way at every
\* await, and another may run its steps before it goes on.  Every variable
\* of an invocation is here a function of Procs; the files are shared, and
\* so is the temp path of a document.

\* What invocation i passes to create.
CoData(i) == [name |-> Str(IF i = 1 THEN "a" ELSE "b")]

\* Documents of a loaded project: the seeds, and one whose record was deleted.
CoSeedArrays == SeedArrays \cup {<<Null, Null>>}

\* The invocations in flight.
Running == {i \in Procs : pc[i] # Idle}

\* Invocation i stands inside the writeJson of its bump.
InBump(i) == pc[i] \in {"backup", "tmpwrite", "rename"} /\ wpath[i] = SystemPath

InitCo ==
  /\ \E a \in CoSeedArrays : \E system \in SeedSystems :
       /\ file = [p \in Paths |-> IF p = SystemPath THEN Stringify(system)
                                                  ELSE Stringify(a)]
       /\ v0 = VersionOf(system)
       /\ seeded = [d \in Docs |-> a]
       /\ everHeld = [d \in Docs |-> HeldIds(a)]
  /\ bak = [p \in Paths |-> Absent]
  /\ tmp = [p \in Paths |-> Absent]
  /\ pc = [i \in Procs |-> Idle]
  /\ op = [i \in Procs |-> NoOp]
  /\ arr = [i \in Procs |-> <<>>]
  /\ wpath = [i \in Procs |-> "none"]
  /\ wdata = [i \in Procs |-> <<>>]
  /\ result = [i \in Procs |-> Returned("none", Null)]
  /\ faults = 0
  /\ muts = 0
  /\ created = [d \in Docs |-> 0]
  /\ passed = [i \in Procs |-> 0]
  /\ project = Loaded

\* Invocation i ends with res.
CoEnd(i, res) ==
  /\ pc' = [pc EXCEPT ![i] = Idle]
  /\ op' = [op EXCEPT ![i] = NoOp]
  /\ arr' = [arr EXCEPT ![i] = <<>>]
  /\ wpath' = [wpath EXCEPT ![i] = "none"]
  /\ wdata' = [wdata EXCEPT ![i] = <<>>]
  /\ result' = [result EXCEPT ![i] = res]
  /\ passed' = [passed EXCEPT ![i] = 0]

\* Invocation i goes on to the step at.
CoGoto(i, at) ==
  /\ pc' = [pc EXCEPT ![i] = at]
  /\ UNCHANGED <<op, arr, wpath, wdata, result>>

\* A create on document d is called as invocation i.  The bounds end the
\* behaviour: MaxMuts calls, none on a document of length MaxLen.
CoInvoke(i, d) ==
  /\ pc[i] = Idle
  /\ muts + faults + Cardinality(Running) < MaxMuts
  /\ Len(Parse(file[d])) < MaxLen
  /\ pc' = [pc EXCEPT ![i] = "entered"]
  /\ op' = [op EXCEPT ![i] = Call("create", d, 0, CoData(i), FALSE)]
  /\ result' = [result EXCEPT ![i] = Pending("create", Null)]
  /\ UNCHANGED <<fsVars, arr, wpath, wdata, faults, histVars>>

\* create, lines 64-67, up to the first await of writeJson.
CoCreate(i) ==
  /\ pc[i] = "entered"
  /\ LET a == Parse(file[op[i].path])
         id == NextId(a)
         entity == NewEntity(id, op[i].data)
     IN /\ arr' = [arr EXCEPT ![i] = Append(a, entity)]
        /\ wpath' = [wpath EXCEPT ![i] = op[i].path]
        /\ wdata' = [wdata EXCEPT ![i] = Append(a, entity)]
        /\ result' = [result EXCEPT ![i] = Pending("create", [id |-> id, entity |-> entity])]
  /\ pc' = [pc EXCEPT ![i] = "backup"]
  /\ UNCHANGED <<fsVars, op, faults, histVars>>

\* writeJson, lines 42-45: the file is there and is copied to its backup.
CoBackup(i) ==
  /\ pc[i] = "backup"
  /\ bak' = [bak EXCEPT ![wpath[i]] = file[wpath[i]]]
  /\ CoGoto(i, "tmpwrite")
  /\ UNCHANGED <<file, tmp, faults, histVars>>

\* writeJson, lines 51-52: the temp file of the path, whoever wrote it last,
\* is overwritten.
CoTmpWrite(i) ==
  /\ pc[i] = "tmpwrite"
  /\ tmp' = [tmp EXCEPT ![wpath[i]] = Stringify(wdata[i])]
  /\ CoGoto(i, "rename")
  /\ UNCHANGED <<file, bak, faults, histVars>>

\* writeJson, line 53: the temp file of the path, whoever wrote it last,
\* replaces the target; writeArray goes on to bump(), bump to the return.
CoRename(i) ==
  /\ pc[i] = "rename"
  /\ tmp[wpath[i]] # Absent
  /\ file' = [file EXCEPT ![wpath[i]] = tmp[wpath[i]]]
  /\ tmp' = [tmp EXCEPT ![wpath[i]] = Absent]
  /\ CoGoto(i, IF wpath[i] \in Docs THEN "bump" ELSE "return")
  /\ passed' = IF wpath[i] = SystemPath
                 THEN [j \in Procs |-> IF j # i /\ InBump(j) THEN passed[j] + 1 ELSE 0]
                 ELSE passed
  /\ UNCHANGED <<bak, faults, everHeld, v0, muts, seeded, created, project>>

\* writeJson, line 53: the other invocation has renamed the temp file away;
\* fs.rename rejects (ENOENT) and the invocation throws.
CoRenameFail(i) ==
  /\ pc[i] = "rename"
  /\ tmp[wpath[i]] = Absent
  /\ faults' = faults + 1
  /\ CoEnd(i, Thrown(op[i].name, "IOError"))
  /\ UNCHANGED <<fsVars, everHeld, v0, muts, seeded, created, project>>

\* bump(), lines 21-25: System.json is read, versionId set, writeJson entered.
CoBumpRead(i) ==
  /\ pc[i] = "bump"
  /\ wpath' = [wpath EXCEPT ![i] = SystemPath]
  /\ wdata' = [wdata EXCEPT ![i] = Bumped(Parse(file[SystemPath]))]
  /\ pc' = [pc EXCEPT ![i] = "backup"]
  /\ passed' = [passed EXCEPT ![i] = 0]
  /\ UNCHANGED <<fsVars, op, arr, result, faults, everHeld, v0, muts, seeded, created, project>>

\* create, line 70: return { id, entity }.
CoReturn(i) ==
  /\ pc[i] = "return"
  /\ CoEnd(i, Returned(op[i].name, result[i].value))
  /\ muts' = muts + 1
  /\ UNCHANGED <<fsVars, faults, everHeld, v0, seeded, created, project>>

NextCo ==
  \E i \in Procs :
    \/ \E d \in Docs : CoInvoke(i, d)
    \/ CoCreate(i)
    \/ CoBackup(i)
    \/ CoTmpWrite(i)
    \/ CoRename(i)
    \/ CoRenameFail(i)
    \/ CoBumpRead(i)
    \/ CoReturn(i)

SpecCo == InitCo /\ [][NextCo]_vars

\* ------------------------------------------------- FileHandler on its own

\* writeJson and readJson called directly on one path of a directory that
\* already holds files, as file-handler.test.ts calls them.

FHPath == "test.json"

\* TestSchema = z.object({ name: z.string(), value: z.number() }): the
\* declared keys, each with the typeof it demands.
TestSchema == [name |-> "string", value |-> "number"]

\* The documents written and found: the test's valid one and its invalid one,
\* one lacking a field, one of a wrong type, one carrying a key the schema
\* does not declare, and null.
FHDocs ==
  { [name |-> Str("test"), value |-> Num(123)],
    [name |-> Str("test"), value |-> Str("not a number")],
    [name |-> Str("test")],
    [name |-> Num(1), value |-> Num(123)],
    [name |-> Str("test"), value |-> Num(123), note |-> Str("n")],
    Null }

\* A JSON object, as against a scalar.
IsObject(x) == "type" \notin DOMAIN x

\* As Conforms, asking only that the declared keys be there.
ConformsPresence(schema, x) ==
  /\ IsObject(x)
  /\ \A k \in DOMAIN schema : k \in DOMAIN x

\* schema.safeParse(x).success for a z.object of primitives: x is an object
\* and every declared key is there with the declared type.
Conforms(schema, x) ==
  /\ IsObject(x)
  /\ \A k \in DOMAIN schema : k \in DOMAIN x /\ TypeOf(x[k]) = schema[k]

\* As Stripped, for a schema made with .passthrough(): unknown keys stay.
Passthrough(schema, x) == x

\* schema.safeParse(x).data of a conforming x: a z.object strips the keys it
\* does not declare.
Stripped(schema, x) == [k \in DOMAIN schema |-> x[k]]

\* readJson(filePath, schema), lines 13-23, on a path holding content.
ReadJson(content, schema) ==
  IF content = Absent THEN Thrown("readJson", "IOError")
  ELSE IF ~IsJson(content) THEN Thrown("readJson", "SyntaxError")
  ELSE IF ~Conforms(schema, Parse(content)) THEN Thrown("readJson", "ValidationError")
  ELSE Returned("readJson", Stripped(schema, Parse(content)))

\* The directory as found: the path holds nothing, a cut text or a document;
\* a backup and a temp file of an earlier life of the path may lie beside it.
InitFH ==
  /\ file \in [{FHPath} -> {Absent, Partial} \cup {Stringify(x) : x \in FHDocs}]
  /\ bak \in [{FHPath} -> {Absent, Stringify([name |-> Str("old"), value |-> Num(0)])}]
  /\ tmp \in [{FHPath} -> {Absent, Partial}]
  /\ pc = Idle
  /\ op = NoOp
  /\ arr = <<>>
  /\ wpath = "none"
  /\ wdata = <<>>
  /\ result = Returned("none", Null)
  /\ faults = 0
  /\ everHeld = [d \in Docs |-> {}]
  /\ v0 = 0
  /\ muts = 0
  /\ seeded = [d \in Docs |-> <<>>]
  /\ created = [d \in Docs |-> 0]
  /\ passed = [i \in Procs |-> 0]
  /\ project = Loaded

\* FileHandler.writeJson(p, data) is called, whatever p holds.
WriteJsonCall(p, data) ==
  /\ pc = Idle
  /\ op' = Call("writeJson", p, 0, NoData, FALSE)
  /\ WriteJson(p, data, <<>>, Null)

\* FileHandler.readJson(p, schema) is called and returns or throws.
ReadJsonCall(p, schema) ==
  /\ pc = Idle
  /\ Finish(ReadJson(file[p], schema))

NextFH ==
  \/ \E data \in FHDocs : WriteJsonCall(FHPath, data)
  \/ ReadJsonCall(FHPath, TestSchema)
  \/ BackupSkip
  \/ BackupCopy
  \/ BackupFail
  \/ TmpWrite
  \/ TmpWriteFail
  \/ Rename
  \/ RenameFail
  \/ Return

SpecFH == InitFH /\ [][NextFH]_vars

\* ---------------------------------------------- ProjectManager on its own

\* validate() and getInfo() called on a directory as it is found.  Both only
\* read, so each call is one step.

REQUIRED_DATA_FILES ==
  << "Actors.json", "Classes.json", "CommonEvents.json", "Enemies.json",
     "Items.json", "MapInfos.json", "Skills.json", "States.json", "System.json",
     "Tilesets.json", "Troops.json", "Weapons.json", "Armors.json",
     "Animations.json" >>

PROJECT_FILES == <<"game.rmmzproject", "Game.rmmzproject">>

Range(q) == {q[i] : i \in 1..Len(q)}

\* The data directory, and the one map file the test project holds.
DataDir == "data"
MapFiles == {"Map001.json"}

\* fs.readdir(dataPath) of every name the model knows, after files.sort().
SortedDataNames ==
  << "Actors.json", "Animations.json", "Armors.json", "Classes.json",
     "CommonEvents.json", "Enemies.json", "Items.json", "Map001.json",
     "MapInfos.json", "Skills.json", "States.json", "System.json",
     "Tilesets.json", "Troops.json", "Weapons.json" >>

PMPaths == Range(PROJECT_FILES) \cup {DataDir} \cup Range(SortedDataNames)

\* What a path holds when it is a directory, and the text of {}.
Directory == <<"dir">>
EmptyObject == Stringify(<<>>)

\* FileHandler.exists(p): fs.access resolves.
Exists(dir, p) == dir[p] # Absent

\* As FoundProjectFile, knowing the lowercase name only.
FoundLowercaseOnly(dir) == Exists(dir, PROJECT_FILES[1])

\* validate(), lines 65-71: a project file is there under either name.
FoundProjectFile(dir) == \E i \in 1..Len(PROJECT_FILES) : Exists(dir, PROJECT_FILES[i])

\* validate(), lines 72-74.
ProjectFileErrors(dir) ==
  IF FoundProjectFile(dir) THEN <<>> ELSE <<"Missing project file: game.rmmzproject">>

\* validate(), lines 84-89: one message per required file that is not there,
\* in the order of REQUIRED_DATA_FILES.
DataFileErrors(dir) ==
  LET missing == SelectSeq(REQUIRED_DATA_FILES, LAMBDA f : ~Exists(dir, f))
  IN [i \in 1..Len(missing) |-> "Missing data file: " \o missing[i]]

\* As Validate, going on to the data files when the data directory is missing.
ValidateNoShortCircuit(dir) ==
  LET errors == ProjectFileErrors(dir)
                  \o (IF Exists(dir, DataDir) THEN <<>> ELSE <<"Missing data/ directory">>)
                  \o DataFileErrors(dir)
  IN [valid |-> errors = <<>>, errors |-> errors]

\* validate(), lines 61-92.
Validate(dir) ==
  IF ~Exists(dir, DataDir)
    THEN [valid |-> FALSE,
          errors |-> ProjectFileErrors(dir) \o <<"Missing data/ directory">>]
    ELSE LET errors == ProjectFileErrors(dir) \o DataFileErrors(dir)
         IN [valid |-> errors = <<>>, errors |-> errors]

\* As CountEntities, counting every slot after the sentinel.
CountSlots(content) == IF IsJson(content) THEN Len(Parse(content)) - 1 ELSE 0

\* countEntities(filename), lines 123-131: the entries that are not null; a
\* file that is missing or does not parse throws inside the try, which gives 0.
CountEntities(content) ==
  IF IsJson(content)
    THEN Len(SelectSeq(Parse(content), LAMBDA e : e # Null))
    ELSE 0

\* listFiles(dataPath, '.json'), part_005 lines 79-92: the names that are
\* there, sorted; [] when the directory cannot be read.
ListFiles(dir) ==
  IF Exists(dir, DataDir)
    THEN SelectSeq(SortedDataNames, LAMBDA f : Exists(dir, f))
    ELSE <<>>

\* getInfo(), lines 97-117: versionSync.current() stands outside any try, so
\* a System.json that is missing or does not parse makes getInfo throw.
GetInfo(dir) ==
  IF dir[SystemPath] = Absent THEN Thrown("getInfo", "IOError")
  ELSE IF ~IsJson(dir[SystemPath]) THEN Thrown("getInfo", "SyntaxError")
  ELSE Returned("getInfo",
         [dataFiles |-> ListFiles(dir),
          mapCount |-> Len(SelectSeq(ListFiles(dir), LAMBDA f : f \in MapFiles)),
          actorCount |-> CountEntities(dir["Actors.json"]),
          itemCount |-> CountEntities(dir["Items.json"]),
          versionId |-> VersionOf(Parse(dir[SystemPath]))])

\* Actors.json and Items.json as found: missing, cut short, the test
\* project's array, and an array with a deleted record.
PMActors ==
  { Absent, Partial,
    Stringify(<<Null, [id |-> Num(1), name |-> Str("Hero")]>>),
    Stringify(<<Null, Null, [id |-> Num(2), name |-> Str("a")]>>) }

PMItems ==
  { Absent, Partial,
    Stringify(<<Null, [id |-> Num(1), name |-> Str("Potion")],
                [id |-> Num(2), name |-> Str("Ether")]>>) }

\* System.json as found: missing, cut short, with a counter and without.
PMSystems ==
  { Absent, Partial,
    Stringify([gameTitle |-> Str("g"), versionId |-> Num(5)]),
    Stringify([gameTitle |-> Str("g")]) }

\* The required files whose content neither call reads.
PlainFiles == Range(REQUIRED_DATA_FILES) \ {"Actors.json", "Items.json", SystemPath}

\* A directory is handed to new ProjectManager(projectPath): any of the two
\* project files, a data directory or none, and in it the files above.
InitPM ==
  /\ \E markers \in SUBSET Range(PROJECT_FILES), data \in BOOLEAN,
        missing \in {m \in SUBSET PlainFiles : Cardinality(m) <= MaxMissing},
        maps \in SUBSET MapFiles,
        actors \in PMActors, items \in PMItems, system \in PMSystems :
       file = [p \in PMPaths |->
                 IF p \in Range(PROJECT_FILES)
                   THEN IF p \in markers THEN EmptyObject ELSE Absent
                 ELSE IF p = DataDir THEN IF data THEN Directory ELSE Absent
                 ELSE IF ~data THEN Absent
                 ELSE IF p = "Actors.json" THEN actors
                 ELSE IF p = "Items.json" THEN items
                 ELSE IF p = SystemPath THEN system
                 ELSE IF p \in MapFiles THEN IF p \in maps THEN EmptyObject ELSE Absent
                 ELSE IF p \in missing THEN Absent ELSE Stringify(<<Null>>)]
  /\ bak = [p \in PMPaths |-> Absent]
  /\ tmp = [p \in PMPaths |-> Absent]
  /\ pc = Idle
  /\ op = NoOp
  /\ arr = <<>>
  /\ wpath = "none"
  /\ wdata = <<>>
  /\ result = Returned("none", Null)
  /\ faults = 0
  /\ everHeld = [d \in Docs |-> {}]
  /\ v0 = 0
  /\ muts = 0
  /\ seeded = [d \in Docs |-> <<>>]
  /\ created = [d \in Docs |-> 0]
  /\ passed = [i \in Procs |-> 0]
  /\ project = Loaded

\* validate() is called and returns.
ValidateCall ==
  /\ pc = Idle
  /\ Finish(Returned("validate", Validate(file)))

\* getInfo() is called and returns or throws.
GetInfoCall ==
  /\ pc = Idle
  /\ Finish(GetInfo(file))

NextPM ==
  \/ ValidateCall
  \/ GetInfoCall

SpecPM == InitPM /\ [][NextPM]_vars

\* ------------------------------------------------------ list() and search()

\* list() and search(query, fields) called on a document as found.  A text
\* that search looks into is a sequence of characters, so that its case and
\* its substrings can be asked.

UpperCase == <<"H", "E", "R", "O">>
LowerCase == <<"h", "e", "r", "o">>

\* String.prototype.toLowerCase of one character.
ToLowerChar(c) ==
  IF \E i \in 1..Len(UpperCase) : UpperCase[i] = c
    THEN LowerCase[CHOOSE i \in 1..Len(UpperCase) : UpperCase[i] = c]
    ELSE c

\* As ToLowerCase, leaving the text as it is.
KeepCase(text) == text

\* String.prototype.toLowerCase
ToLowerCase(text) == [i \in 1..Len(text) |-> ToLowerChar(text[i])]

\* String.prototype.includes
Includes(text, part) ==
  \E at \in 0..(Len(text) - Len(part)) : SubSeq(text, at + 1, at + Len(part)) = part

\* String(value) of a scalar of the documents below.
StringOf(value) ==
  IF TypeOf(value) = "string" THEN value.val
  ELSE IF value = Num(10) THEN <<"1", "0">>
  ELSE <<"0">>

\* As FieldMatches, coercing the value to a string instead of skipping it.
FieldMatchesCoerced(entity, field, lowerQuery) ==
  /\ field \in DOMAIN entity
  /\ Includes(ToLowerCase(StringOf(entity[field])), lowerQuery)

\* search(), lines 114-120: the callback of fields.some.
FieldMatches(entity, field, lowerQuery) ==
  /\ field \in DOMAIN entity
  /\ TypeOf(entity[field]) = "string"
  /\ Includes(ToLowerCase(entity[field].val), lowerQuery)

\* search(query, fields), lines 110-122, on the array a.
Search(a, query, fields) ==
  LET lowerQuery == ToLowerCase(query)
  IN SelectSeq(List(a),
               LAMBDA entity : \E i \in 1..Len(fields) :
                                 FieldMatches(entity, fields[i], lowerQuery))

Hero == [id |-> Num(1), name |-> Str(<<"H", "e", "r", "o">>), value |-> Num(10)]
HERO == [id |-> Num(2), name |-> Str(<<"H", "E", "R", "O">>), value |-> Num(0),
         note |-> Str(<<"o", "h">>)]
Her == [id |-> Num(3), name |-> Str(<<"h", "e", "r">>), value |-> Num(10),
        note |-> Str(<<"1", "0">>)]

\* The documents as found: sentinels only, records, records between holes.
QArrays ==
  { <<Null>>, <<Null, Null>>, <<Null, Hero>>, <<Null, Hero, HERO, Her>>,
    <<Null, Null, HERO, Her>>, <<Null, Hero, Null, Her>> }

\* The queries: empty, in either case, a part of a name, digits, no match.
Queries ==
  { <<>>, <<"h", "e", "r", "o">>, <<"H", "E", "R", "O">>, <<"H", "e", "r", "o">>,
    <<"E", "r">>, <<"e", "R">>, <<"1">>, <<"o", "h">>, <<"r", "h">> }

FieldLists == { <<>>, <<"name">>, <<"value">>, <<"note">>, <<"name", "note">>, <<"value", "note">> }

QCalls ==
  {Call("list", d, 0, NoData, FALSE) : d \in Docs}
    \cup {Call("search", d, 0, [query |-> q, fields |-> f], FALSE) :
            d \in Docs, q \in Queries, f \in FieldLists}

\* A project is loaded: the document is there, or was never laid down.
InitQ ==
  /\ \E content \in {Stringify(a) : a \in QArrays} \cup {Absent} :
       file = [p \in Paths |->
                 IF p = SystemPath
                   THEN Stringify([gameTitle |-> Str("g"), versionId |-> Num(5)])
                   ELSE content]
  /\ bak = [p \in Paths |-> Absent]
  /\ tmp = [p \in Paths |-> Absent]
  /\ pc = Idle
  /\ op = NoOp
  /\ arr = <<>>
  /\ wpath = "none"
  /\ wdata = <<>>
  /\ result = Returned("none", Null)
  /\ faults = 0
  /\ everHeld = [d \in Docs |-> {}]
  /\ v0 = 5
  /\ muts = 0
  /\ seeded = [d \in Docs |-> <<>>]
  /\ created = [d \in Docs |-> 0]
  /\ passed = [i \in Procs |-> 0]
  /\ project = Loaded

\* search(query, fields)
SearchCall ==
  /\ Entered("search")
  /\ IsJson(file[op.path])
  /\ Finish(Returned("search", Search(Parse(file[op.path]), op.data.query, op.data.fields)))

NextQ ==
  \/ \E call \in QCalls : Invoke(call)
  \/ ReadFail
  \/ ListCall
  \/ SearchCall

SpecQ == InitQ /\ [][NextQ]_vars

\* ------------------------------------------------------- the entity tools

\* The handlers of list_entities, get_entity and delete_entity, on a server
\* that starts with no project loaded.  A handler's body stands in a try
\* whose catch returns the error flagged isError; an exception thrown outside
\* it would leave the handler and end the serving of tools.

ENTITY_TYPES ==
  [actors |-> "Actors.json", classes |-> "Classes.json", skills |-> "Skills.json",
   items |-> "Items.json", weapons |-> "Weapons.json", armors |-> "Armors.json",
   enemies |-> "Enemies.json", states |-> "States.json"]

EntityType == DOMAIN ENTITY_TYPES

\* As protectedTypes, guarding the first record of every type.
protectedTypesAll == EntityType

\* delete_entity, line 171.
protectedTypes == {"actors", "classes", "states"}

ToolPaths == {ENTITY_TYPES[t] : t \in EntityType} \cup {SystemPath}

\* The DatabaseManager method each tool calls.
ToolMethod == [list_entities |-> "list", get_entity |-> "get", delete_entity |-> "delete"]

\* The server has died of an exception that left a handler.
Crashed == "crashed"

\* As RequireProject, called before the try: the exception leaves the handler.
RequireProjectUncaught(tool) ==
  /\ pc' = Crashed
  /\ result' = Thrown(ToolMethod[tool], "NoProject")
  /\ UNCHANGED <<fsVars, op, arr, wpath, wdata, faults, histVars>>

\* getManager, line 14: requireProject() throws with no project loaded; the
\* catch of the handler returns the error.
RequireProject(tool) == Finish(Thrown(ToolMethod[tool], "NoProject"))

\* A project as create_project lays it down: [null, factory(1)] in every
\* database file, and System.json; Weapons.json may have been cut short or
\* removed since.
InitTool ==
  /\ \E weapons \in {Stringify(<<Null, DefaultFactory(1)>>), Partial, Absent} :
       file = [p \in ToolPaths |->
                 IF p = SystemPath
                   THEN Stringify([gameTitle |-> Str("g"), versionId |-> Num(5)])
                 ELSE IF p = "Weapons.json" THEN weapons
                 ELSE Stringify(<<Null, DefaultFactory(1)>>)]
  /\ bak = [p \in ToolPaths |-> Absent]
  /\ tmp = [p \in ToolPaths |-> Absent]
  /\ pc = Idle
  /\ op = NoOp
  /\ arr = <<>>
  /\ wpath = "none"
  /\ wdata = <<>>
  /\ result = Returned("none", Null)
  /\ faults = 0
  /\ everHeld = [d \in Docs |-> {}]
  /\ v0 = 5
  /\ muts = 0
  /\ seeded = [d \in Docs |-> <<>>]
  /\ created = [d \in Docs |-> 0]
  /\ passed = [i \in Procs |-> 0]
  /\ project = NoProject

\* load_project, lines 664-667 of project-tools.ts: the handle is set.
LoadProject ==
  /\ pc = Idle
  /\ project = NoProject
  /\ project' = Loaded
  /\ End(Returned("load_project", Null))
  /\ UNCHANGED <<fsVars, faults, everHeld, v0, muts, seeded, created, passed>>

\* A tool is invoked: delete_entity computes protectFirst from the entity
\* type (lines 171-172), getManager asks for the project, and the method of
\* the DatabaseManager of the type's file is called.
ToolInvoke(tool, entityType, id) ==
  /\ pc = Idle
  /\ IF project = NoProject
       THEN RequireProject(tool)
       ELSE Invoke(Call(ToolMethod[tool], ENTITY_TYPES[entityType], id, NoData,
                        tool = "delete_entity" /\ entityType \in protectedTypes))

NextTool ==
  \/ LoadProject
  \/ \E tool \in DOMAIN ToolMethod, t \in EntityType, id \in 1..2 : ToolInvoke(tool, t, id)
  \/ ReadFail
  \/ ListCall
  \/ Get
  \/ Delete
  \/ BackupCopy
  \/ BackupFail
  \/ TmpWrite
  \/ TmpWriteFail
  \/ Rename
  \/ RenameFail
  \/ BumpRead
  \/ Return

SpecTool == InitTool /\ [][NextTool]_vars

\* ---------------------------------------------------------- the map tools

\* create_map and delete_map on a loaded project: every awaited file
\* operation of a handler is a step.

Digits == <<"1", "2", "3", "4", "5", "6", "7", "8", "9">>

\* mapFilename(id), for the ids of one digit: Map + padStart(3, '0') + .json
mapFilename(id) == "Map00" \o (IF id = 0 THEN "0" ELSE Digits[id]) \o ".json"

MapPaths == {mapFilename(i) : i \in 1..MaxMaps} \cup {MapInfosPath, SystemPath}

\* defaultMap(width, height, tilesetId), less its tile data.
defaultMap == [width |-> Num(17), height |-> Num(13), events |-> <<Null>>]

\* The MapInfo of create_map, lines 342-350.
MapInfo(id, order) ==
  [id |-> Num(id), name |-> Str("m"), order |-> Num(order), parentId |-> Num(0)]

\* As NewMapId, taking the lowest freed slot when there is one.
NewMapIdLowestHole(infos) ==
  IF \E i \in 1..(Len(infos) - 1) : At(infos, i) = Null
    THEN CHOOSE i \in 1..(Len(infos) - 1) :
           At(infos, i) = Null /\ \A j \in 1..(i - 1) : At(infos, j) # Null
    ELSE Len(infos)

\* create_map, line 331: newId = infos.length
NewMapId(infos) == Len(infos)

\* As DeleteMapRefused, guarding no map.
DeleteMapRefusedNever(mapId) == FALSE

\* delete_map, line 521.
DeleteMapRefused(mapId) == mapId = 1

\* Catalogues as found: the one create_project lays down, and one with a
\* second map; every map of the catalogue has its file.
SeedMapInfos == { <<Null, MapInfo(1, 1)>>, <<Null, MapInfo(1, 1), MapInfo(2, 2)>> }

InitMap ==
  /\ \E infos \in SeedMapInfos :
       file = [p \in MapPaths |->
                 IF p = SystemPath
                   THEN Stringify([gameTitle |-> Str("g"), versionId |-> Num(5)])
                 ELSE IF p = MapInfosPath THEN Stringify(infos)
                 ELSE IF \E i \in 1..(Len(infos) - 1) : p = mapFilename(i)
                   THEN Stringify(defaultMap)
                 ELSE Absent]
  /\ bak = [p \in MapPaths |-> Absent]
  /\ tmp = [p \in MapPaths |-> Absent]
  /\ pc = Idle
  /\ op = NoOp
  /\ arr = <<>>
  /\ wpath = "none"
  /\ wdata = <<>>
  /\ result = Returned("none", Null)
  /\ faults = 0
  /\ everHeld = [d \in Docs |-> {}]
  /\ v0 = 5
  /\ muts = 0
  /\ seeded = [d \in Docs |-> <<>>]
  /\ created = [d \in Docs |-> 0]
  /\ passed = [i \in Procs |-> 0]
  /\ project = Loaded

MapCalls ==
  {Call("create_map", MapInfosPath, 0, NoData, FALSE)}
    \cup {Call("delete_map", MapInfosPath, mapId, NoData, FALSE) : mapId \in 1..(MaxMaps + 1)}

\* create_map or delete_map is invoked.  The bound ends the behaviour: no
\* create_map once the catalogue holds map MaxMaps.
MapInvoke(call) ==
  /\ pc = Idle
  /\ (call.name = "create_map" /\ IsJson(file[MapInfosPath]))
       => NewMapId(Parse(file[MapInfosPath])) <= MaxMaps
  /\ op' = call
  /\ pc' = "entered"
  /\ result' = Pending(call.name, Null)
  /\ UNCHANGED <<fsVars, arr, wpath, wdata, faults, histVars>>

\* create_map, lines 327-354: MapInfos.json is read, the id taken, and
\* writeJson of the map file entered; infos stays in the handler.
CreateMap ==
  /\ Entered("create_map")
  /\ IsJson(file[MapInfosPath])
  /\ op' = op
  /\ LET infos == Parse(file[MapInfosPath])
         newId == NewMapId(infos)
     IN WriteJson(mapFilename(newId), defaultMap, infos, Num(newId))

\* create_map, lines 357-358: infos.push(mapInfo); writeMapInfos(infos).
CreateMapInfo ==
  /\ pc = "mapinfos"
  /\ op.name = "create_map"
  /\ op' = op
  /\ LET order == Len(List(arr)) + 1
         infos == Append(arr, MapInfo(result.value.val, order))
     IN WriteJson(MapInfosPath, infos, infos, result.value)

\* delete_map, lines 521-548, up to the first file operation: map 1 is
\* refused before anything is read; a map that is not in the catalogue is not
\* found; the map file is unlinked when it exists, else writeMapInfos entered.
DeleteMap ==
  /\ Entered("delete_map")
  /\ IF DeleteMapRefused(op.id)
       THEN Finish(Thrown("delete_map", "Protected"))
       ELSE /\ IsJson(file[MapInfosPath])
            /\ LET infos == Parse(file[MapInfosPath])
               IN IF op.id >= Len(infos) \/ At(infos, op.id) = Null
                    THEN Finish(Thrown("delete_map", "NotFound"))
                    ELSE IF file[mapFilename(op.id)] # Absent
                      THEN /\ pc' = "unlink"
                           /\ arr' = infos
                           /\ UNCHANGED <<fsVars, op, wpath, wdata, result, faults, histVars>>
                      ELSE /\ op' = op
                           /\ WriteJson(MapInfosPath, SetAt(infos, op.id, Null),
                                        SetAt(infos, op.id, Null), Null)

\* delete_map, line 543: FileHandler.deleteFile(mapPath) completes, and with
\* infos[mapId] = null writeMapInfos is entered (lines 547-548).
Unlink ==
  /\ pc = "unlink"
  /\ file' = [file EXCEPT ![mapFilename(op.id)] = Absent]
  /\ arr' = SetAt(arr, op.id, Null)
  /\ wpath' = MapInfosPath
  /\ wdata' = SetAt(arr, op.id, Null)
  /\ pc' = "backup"
  /\ UNCHANGED <<bak, tmp, op, result, faults, histVars>>

\* delete_map, line 543: fs.unlink fails; the handler's catch returns it.
UnlinkFail ==
  /\ pc = "unlink"
  /\ Fault
  /\ Throw("IOError")
  /\ UNCHANGED <<fsVars, histVars>>

NextMap ==
  \/ \E call \in MapCalls : MapInvoke(call)
  \/ CreateMap
  \/ CreateMapInfo
  \/ DeleteMap
  \/ Unlink
  \/ UnlinkFail
  \/ BackupSkip
  \/ BackupCopy
  \/ BackupFail
  \/ TmpWrite
  \/ TmpWriteFail
  \/ Rename
  \/ RenameFail
  \/ BumpRead
  \/ Return

SpecMap == InitMap /\ [][NextMap]_vars

\* -------------------------------------------------------- the event tools

\* create_event, delete_event and add_event_commands on the maps of a loaded
\* project: readMap, the handler's own work and the entry of writeMap are one
\* step, every awaited file operation after it a step of its own.

\* An EventCommand of a page's list.
Command(code, indent, parameters) ==
  [code |-> Num(code), indent |-> Num(indent), parameters |-> parameters]

\* endCommand(): the marker that closes a list.
endCommand == Command(0, 0, <<>>)

\* defaultEventPage(), less its conditions and image; create_event sets the
\* trigger.
defaultEventPage(trigger) == [trigger |-> Num(trigger), list |-> <<endCommand>>]

\* A value convertCommand returns, and the error it throws.
Converted(list) == [status |-> "ok", value |-> list]
UnknownCommand == [status |-> "UnknownCommand", value |-> <<>>]
MissingType == [status |-> "MissingType", value |-> <<>>]

\* cmd.x || dflt of a numeric field: absent or 0 gives the default.
OrDefault(cmd, field, dflt) ==
  IF field \in DOMAIN cmd /\ cmd[field] # Num(0) THEN cmd[field] ELSE Num(dflt)

\* convertCommand(cmd), for show_text, wait and erase_event of its cases; a
\* text is the sequence of the lines that split('\n') gives.  The default
\* case throws, for "end" as for any type that is no case of the switch.
convertCommand(cmd) ==
  CASE cmd.type.val = "show_text" ->
         Converted(<<Command(101, 0, <<Str(""), Num(0), Num(0), Num(2)>>)>>
                     \o [i \in 1..Len(cmd.text) |-> Command(401, 0, <<Str(cmd.text[i])>>)])
    [] cmd.type.val = "wait" ->
         Converted(<<Command(230, 0, <<OrDefault(cmd, "duration", 60)>>)>>)
    [] cmd.type.val = "erase_event" -> Converted(<<Command(214, 0, <<>>)>>)
    [] OTHER -> UnknownCommand

\* add_event_commands, line 503: the command has a non-empty string type.
HasType(cmd) == "type" \in DOMAIN cmd /\ cmd.type.type = "string" /\ cmd.type.val # ""

RECURSIVE ConvertSkipping(_, _, _)
\* As ConvertFrom, leaving out the commands that cannot be converted.
ConvertSkipping(commands, i, acc) ==
  IF i > Len(commands) THEN Converted(acc)
  ELSE IF ~HasType(commands[i]) \/ convertCommand(commands[i]).status # "ok"
    THEN ConvertSkipping(commands, i + 1, acc)
  ELSE ConvertSkipping(commands, i + 1, acc \o convertCommand(commands[i]).value)

RECURSIVE ConvertFrom(_, _, _)
\* add_event_commands, lines 501-511: the loop over the batch from command
\* i on, with acc converted so far; the first command without a type or of
\* an unknown type ends the handler.
ConvertFrom(commands, i, acc) ==
  IF i > Len(commands) THEN Converted(acc)
  ELSE IF ~HasType(commands[i]) THEN MissingType
  ELSE IF convertCommand(commands[i]).status # "ok" THEN convertCommand(commands[i])
  ELSE ConvertFrom(commands, i + 1, acc \o convertCommand(commands[i]).value)

\* As Existing, keeping the stored end command.
ExistingAll(list) == list

\* add_event_commands, line 516: page.list.filter((c) => c.code !== 0)
Existing(list) == SelectSeq(list, LAMBDA c : c.code # Num(0))

\* add_event_commands, lines 514-520: the new list of the page.
NewList(list, converted, append) ==
  IF append THEN Existing(list) \o converted \o <<endCommand>>
            ELSE converted \o <<endCommand>>

\* As Slot, never reusing a freed slot.
SlotAtEnd(events) == Len(events)

\* create_event, lines 329-342: the first null slot from 1 on, else the
\* length of the array.
Slot(events) ==
  IF \E i \in 1..(Len(events) - 1) : At(events, i) = Null
    THEN CHOOSE i \in 1..(Len(events) - 1) :
           At(events, i) = Null /\ \A j \in 1..(i - 1) : At(events, j) # Null
    ELSE Len(events)

\* create_event, lines 362-364: null is pushed until the slot exists.
Padded(events, slot) ==
  events \o [i \in 1..(slot + 1 - Len(events)) |-> Null]

\* create_event, lines 352-359: the event, less its position and note.
Event(id, trigger) ==
  [id |-> Num(id), name |-> Str("e"), pages |-> <<defaultEventPage(trigger)>>]

\* The maps of the project: map 1 has its file, map 2 has none.
EvPaths == {mapFilename(1), mapFilename(2), SystemPath}

\* An event as the editor lays it down: a conditional branch whose block is
\* closed by an end command of its own, one level in.
BranchEvent(id) ==
  [id |-> Num(id), name |-> Str("b"),
   pages |-> <<[trigger |-> Num(0),
                list |-> <<Command(111, 0, <<Num(0)>>), Command(0, 1, <<>>),
                           endCommand>>]>>]

\* The events of map 1 as found: none, one of the editor, and one behind a
\* freed slot.
SeedEvents == { <<Null>>, <<Null, BranchEvent(1)>>, <<Null, Null, Event(2, 0)>> }

InitEv ==
  /\ \E events \in SeedEvents :
       file = [p \in EvPaths |->
                 IF p = SystemPath
                   THEN Stringify([gameTitle |-> Str("g"), versionId |-> Num(5)])
                 ELSE IF p = mapFilename(1)
                   THEN Stringify(Spread(defaultMap, [events |-> events]))
                 ELSE Absent]
  /\ bak = [p \in EvPaths |-> Absent]
  /\ tmp = [p \in EvPaths |-> Absent]
  /\ pc = Idle
  /\ op = NoOp
  /\ arr = <<>>
  /\ wpath = "none"
  /\ wdata = <<>>
  /\ result = Returned("none", Null)
  /\ faults = 0
  /\ everHeld = [d \in Docs |-> {}]
  /\ v0 = 5
  /\ muts = 0
  /\ seeded = [d \in Docs |-> <<>>]
  /\ created = [d \in Docs |-> 0]
  /\ passed = [i \in Procs |-> 0]
  /\ project = Loaded

\* The commands callers pass: of known types, of the type "end" and of a
\* type that does not exist, with a number for a type, and with no type.
Wait == [type |-> Str("wait"), duration |-> Num(0)]
ShowText == [type |-> Str("show_text"), text |-> <<"a", "b">>]
EraseEvent == [type |-> Str("erase_event")]
EndCmd == [type |-> Str("end")]
Bogus == [type |-> Str("bogus")]
NumberTyped == [type |-> Num(5)]
Untyped == [duration |-> Num(9)]

\* The batches callers pass: empty and valid ones, and ones with an invalid
\* command before or after a valid one.
ValidBatches == { <<>>, <<ShowText>>, <<EraseEvent, Wait>> }
InvalidBatches ==
  { <<Wait, EndCmd>>, <<Wait, Bogus>>, <<Untyped, Wait>>, <<Wait, NumberTyped>> }

EvCalls ==
  {Call("create_event", mapFilename(mapId), 0, [trigger |-> 0], FALSE) : mapId \in 1..2}
    \cup {Call("delete_event", mapFilename(1), eventId, NoData, FALSE) :
             eventId \in 1..MaxEvents}
    \cup {Call("add_event_commands", mapFilename(1), eventId,
                [pageIndex |-> 0, commands |-> commands, append |-> append], FALSE) :
             eventId \in 1..2, commands \in ValidBatches, append \in BOOLEAN}
    \cup {Call("add_event_commands", mapFilename(1), 1,
                [pageIndex |-> 0, commands |-> commands, append |-> TRUE], FALSE) :
             commands \in InvalidBatches}
    \cup {Call("add_event_commands", mapFilename(1), 1,
                [pageIndex |-> 1, commands |-> <<Wait>>, append |-> TRUE], FALSE)}

\* The events array of a map file.
EventsOf(content) == Parse(content).events

\* An event tool is invoked.  The bounds end the behaviour: no call once
\* the ledger has counted MaxChanges changes, no create_event that would
\* extend an array of length MaxEvents.
EvInvoke(call) ==
  /\ pc = Idle
  /\ Current < v0 + MaxChanges
  /\ (call.name = "create_event" /\ IsJson(file[call.path]))
       => Slot(EventsOf(file[call.path])) < MaxEvents
  /\ op' = call
  /\ pc' = "entered"
  /\ result' = Pending(call.name, Null)
  /\ UNCHANGED <<fsVars, arr, wpath, wdata, faults, histVars>>

\* create_event, lines 321-367: the map is read, the slot taken, the event
\* placed and writeMap entered.
CreateEvent ==
  /\ Entered("create_event")
  /\ IsJson(file[op.path])
  /\ op' = op
  /\ LET mapData == Parse(file[op.path])
         slot == Slot(mapData.events)
         events == SetAt(Padded(mapData.events, slot), slot, Event(slot, op.data.trigger))
     IN WriteJson(op.path, Spread(mapData, [events |-> events]), <<>>, Num(slot))

\* delete_event, lines 556-568: an event that is not there is not found;
\* else its slot is set to null and writeMap entered.
DeleteEvent ==
  /\ Entered("delete_event")
  /\ IsJson(file[op.path])
  /\ LET mapData == Parse(file[op.path])
     IN IF op.id >= Len(mapData.events) \/ At(mapData.events, op.id) = Null
          THEN Finish(Thrown("delete_event", "NotFound"))
          ELSE /\ op' = op
               /\ WriteJson(op.path,
                            Spread(mapData, [events |-> SetAt(mapData.events, op.id, Null)]),
                            <<>>, Null)

\* add_event_commands, lines 483-522: the event and the page are looked up,
\* the batch converted, the page's list rebuilt and writeMap entered; each
\* failure returns before anything is written.
AddEventCommands ==
  /\ Entered("add_event_commands")
  /\ IsJson(file[op.path])
  /\ LET mapData == Parse(file[op.path])
         events == mapData.events
     IN IF op.id >= Len(events) \/ At(events, op.id) = Null
          THEN Finish(Thrown("add_event_commands", "NotFound"))
          ELSE LET event == At(events, op.id)
               IN IF op.data.pageIndex >= Len(event.pages)
                    THEN Finish(Thrown("add_event_commands", "PageNotFound"))
                    ELSE LET conv == ConvertFrom(op.data.commands, 1, <<>>)
                             page == At(event.pages, op.data.pageIndex)
                             list == NewList(page.list, conv.value, op.data.append)
                             pages == SetAt(event.pages, op.data.pageIndex,
                                            Spread(page, [list |-> list]))
                             after == SetAt(events, op.id, Spread(event, [pages |-> pages]))
                         IN IF conv.status # "ok"
                              THEN Finish(Thrown("add_event_commands", conv.status))
                              ELSE /\ op' = op
                                   /\ WriteJson(op.path, Spread(mapData, [events |-> after]),
                                                <<>>, Num(Len(conv.value)))

NextEv ==
  \/ \E call \in EvCalls : EvInvoke(call)
  \/ ReadFail
  \/ CreateEvent
  \/ DeleteEvent
  \/ AddEventCommands
  \/ BackupCopy
  \/ BackupFail
  \/ TmpWrite
  \/ TmpWriteFail
  \/ Rename
  \/ RenameFail
  \/ BumpRead
  \/ Return

SpecEv == InitEv /\ [][NextEv]_vars

\* ------------------------------------------------------------ create_project

\* create_project called on a directory that holds nothing, or a project
\* under either name of its project file; of the files it writes, the project
\* file, System.json and the first database file are kept.

\* currentProject after create_project: the manager of the new project.
Created == "created"

CPPaths == Range(PROJECT_FILES) \cup {SystemPath, "Actors.json"}

\* create_project, line 709: FileHandler.exists(projectPath/Game.rmmzproject)
ProjectExistsAt(dir) == Exists(dir, MarkerPath)

\* defaultSystem(gameTitle), less all but its title and versionId.
defaultSystem == [gameTitle |-> Str("new"), versionId |-> Num(0)]

\* The project files a directory is found with: none, the lowercase one of
\* the editor from 1.6 on, the capitalised one, or both (which is also what
\* a filesystem that ignores case shows of either).
MarkersFound == SUBSET Range(PROJECT_FILES)

InitCP ==
  /\ \E markers \in MarkersFound :
       file = [p \in CPPaths |->
                 IF p \in markers THEN EmptyObject
                 ELSE IF markers = {} \/ p \in Range(PROJECT_FILES) THEN Absent
                 ELSE IF p = SystemPath
                   THEN Stringify([gameTitle |-> Str("g"), versionId |-> Num(5)])
                 ELSE Stringify(<<Null, DefaultFactory(1), DefaultFactory(2)>>)]
  /\ bak = [p \in CPPaths |-> Absent]
  /\ tmp = [p \in CPPaths |-> Absent]
  /\ pc = Idle
  /\ op = NoOp
  /\ arr = <<>>
  /\ wpath = "none"
  /\ wdata = <<>>
  /\ result = Returned("none", Null)
  /\ faults = 0
  /\ everHeld = [d \in Docs |-> {}]
  /\ v0 = 5
  /\ muts = 0
  /\ seeded = [d \in Docs |-> <<>>]
  /\ created = [d \in Docs |-> 0]
  /\ passed = [i \in Procs |-> 0]
  /\ project \in {NoProject, Loaded}

\* create_project is invoked.
CPInvoke ==
  /\ pc = Idle
  /\ op' = Call("create_project", MarkerPath, 0, NoData, FALSE)
  /\ pc' = "entered"
  /\ result' = Pending("create_project", Null)
  /\ UNCHANGED <<fsVars, arr, wpath, wdata, faults, histVars>>

\* create_project, lines 709-734: a directory that holds Game.rmmzproject is
\* refused; else the directories are made and writeJson of the project file
\* entered.
CreateProject ==
  /\ Entered("create_project")
  /\ IF ProjectExistsAt(file)
       THEN Finish(Thrown("create_project", "Exists"))
       ELSE /\ op' = op
            /\ WriteJson(MarkerPath, <<>>, <<>>, Null)

\* create_project, lines 737-738: writeJson of System.json.
CreateSystem ==
  /\ pc = "system"
  /\ op' = op
  /\ WriteJson(SystemPath, defaultSystem, <<>>, Null)

\* create_project, lines 752-755: writeJson of [null, factory(1)].
CreateDbFile ==
  /\ pc = "dbfiles"
  /\ op' = op
  /\ WriteJson("Actors.json", <<Null, DefaultFactory(1)>>, <<>>, Null)

\* create_project, lines 836-857: the project is loaded, the handle set and
\* the handler returns.
CreateLoad ==
  /\ pc = "load"
  /\ project' = Created
  /\ End(Returned("create_project", Null))
  /\ UNCHANGED <<fsVars, faults, everHeld, v0, muts, seeded, created, passed>>

NextCP ==
  \/ CPInvoke
  \/ CreateProject
  \/ CreateSystem
  \/ CreateDbFile
  \/ CreateLoad
  \/ BackupSkip
  \/ BackupCopy
  \/ BackupFail
  \/ TmpWrite
  \/ TmpWriteFail
  \/ Rename
  \/ RenameFail

SpecCP == InitCP /\ [][NextCP]_vars

\* ============================================================== properties

\* A step in which a filesystem call of the running invocation failed.
FaultStep == faults' # faults

\* Slot 0 is null and every other slot is null or holds a record whose id is
\* its index.
WellFormed(a) ==
  /\ Len(a) >= 1
  /\ At(a, 0) = Null
  /\ \A i \in 1..(Len(a) - 1) : At(a, i) = Null \/ At(a, i).id = Num(i)

\* C1: in every step of every invocation, whether its filesystem calls
\* succeed or fail, the content at each path stays what it was or becomes the
\* complete serialization of the data writeJson was given for that path; a
\* cut document is never at a path.
C1_TargetNeverPartial ==
  [][\A p \in Paths :
       /\ file'[p] # Partial
       /\ \/ file'[p] = file[p]
          \/ pc # Idle /\ p = wpath /\ file'[p] = Stringify(wdata)]_vars

\* C1 witness: a temp write was cut after the backup was taken, and the
\* target still holds its complete previous document.
C1_Witness ==
  \E p \in Paths : tmp[p] = Partial /\ IsJson(file[p]) /\ bak[p] = file[p]

\* C2, as claimed: every writeJson that completes on a path that held a
\* document leaves the new data at the path and the document it replaced at
\* path.bak.
C2_BackupHoldsPrevious ==
  [][(pc = "rename" /\ ~FaultStep) =>
       /\ file'[wpath] = Stringify(wdata)
       /\ file[wpath] # Absent => bak'[wpath] = file[wpath]]_vars

\* C3: every record array document on disk is well formed, whatever the
\* callers of create and update passed.
C3_RecordArrayInvariant ==
  \A d \in Docs : IsJson(file[d]) => WellFormed(Parse(file[d]))

\* C3 witness: a create whose caller passed an id of its own has been written.
C3_Witness ==
  /\ pc = "bump"
  /\ op.name = "create"
  /\ "id" \in DOMAIN op.data
  /\ file[op.path] = Stringify(arr)

\* C4: no step shortens a document; and the id a create assigns and returns
\* is the array length, which is greater than every id that ever held a
\* record in the document.
C4_IdsNeverReused ==
  [][/\ \A d \in Docs :
          IsJson(file[d]) =>
            IsJson(file'[d]) /\ Len(Parse(file'[d])) >= Len(Parse(file[d]))
     /\ (Entered("create") /\ pc' = "backup") =>
          /\ result'.value.id = Len(Parse(file[op.path]))
          /\ result'.value.entity = At(arr', result'.value.id)
          /\ \A i \in everHeld[op.path] : i < result'.value.id]_vars

\* C4 witness: a create runs on a document with a hole left by a delete.
C4_Witness ==
  /\ pc = "return"
  /\ op.name = "create"
  /\ \E i \in everHeld[op.path] :
       i < result.value.id /\ At(Parse(file[op.path]), i) = Null

\* C5: whatever a delete(K) writes to its document keeps the array length
\* and leaves get(J) as it was for every J other than K.
C5_DeleteKeepsOtherIds ==
  [][(op.name = "delete" /\ file'[op.path] # file[op.path]) =>
       LET before == Parse(file[op.path])
           after == Parse(file'[op.path])
       IN /\ Len(after) = Len(before)
          /\ \A j \in Ids \ {op.id} : GetResult(after, j) = GetResult(before, j)]_vars

\* C5 witness: a delete is returning and a record with a higher id is still
\* in the document.
C5_Witness ==
  /\ pc = "return"
  /\ op.name = "delete"
  /\ \E j \in Ids : j > op.id /\ ~NotFound(Parse(file[op.path]), j)

\* C6: between invocations, current() is what it was when System.json was
\* laid down plus the number of create/update/delete calls that returned.
C6_LedgerCount ==
  (pc = Idle /\ IsJson(file[SystemPath])) => Current = v0 + muts

\* C6 witness: two or more mutations have returned, on a ledger that was
\* laid down with a counter other than 0.
C6_Witness ==
  /\ pc = Idle
  /\ muts >= 2
  /\ v0 > 0
  /\ IsJson(file[SystemPath])
  /\ Current = v0 + muts

\* C7: while a mutation runs, the counter has been incremented for it only
\* when its document already holds the full post-state; and when the
\* invocation failed, the counter is the one of the mutations that returned.
C7_WriteThenBump ==
  /\ (pc # Idle /\ op.name \in Mutators /\ IsJson(file[SystemPath])
        /\ Current # v0 + muts)
       => (pc = "return" /\ Current = v0 + muts + 1
             /\ file[op.path] = Stringify(arr))
  /\ (pc \in {"backup", "tmpwrite", "rename"} /\ wpath \in Docs
        /\ IsJson(file[SystemPath]))
       => Current = v0 + muts

\* C7 witness: a mutation failed after its document was written and before
\* the counter was: the document is ahead of the ledger.
C7_Witness ==
  /\ pc = Idle
  /\ result.call \in Mutators
  /\ result.status = "IOError"
  /\ \E d \in Docs : IsJson(bak[d]) /\ IsJson(file[d]) /\ bak[d] # file[d]
  /\ IsJson(file[SystemPath])
  /\ tmp[SystemPath] # Absent

\* C8: a delete(1, true), in whatever state it is called, throws Protected
\* in its first step and leaves every file, backup and temp file as it was.
C8_ProtectedDelete ==
  [][(Entered("delete") /\ op.id = 1 /\ op.protect) =>
       /\ pc' = Idle
       /\ result'.call = "delete"
       /\ result'.status = "Protected"
       /\ UNCHANGED <<file, bak, tmp>>]_vars

\* C8 witness: delete(1, true) was refused on a document whose slot 1 is null.
C8_Witness ==
  /\ pc = Idle
  /\ result.status = "Protected"
  /\ \E d \in Docs :
       /\ IsJson(file[d])
       /\ Len(Parse(file[d])) > 1
       /\ At(Parse(file[d]), 1) = Null

\* C9, as claimed: a failed backup copy ends the invocation with an error, the
\* temp file and the target unwritten.
C9_AbortOnBackupFailure ==
  [][(pc = "backup" /\ FaultStep) =>
       /\ pc' = Idle
       /\ result'.status = "IOError"
       /\ UNCHANGED <<file, tmp>>]_vars

\* C10: a failed temp write ends the invocation with an error, the rename not
\* executed and the target as it was.
C10_TmpFailureLeavesTarget ==
  [][(pc = "tmpwrite" /\ FaultStep) =>
       /\ pc' = Idle
       /\ result'.call = op.name
       /\ result'.status = "IOError"
       /\ file' = file]_vars

\* C10 witness: an invocation threw on its temp write; the cut temp file is
\* there and the target holds a complete document.
C10_Witness ==
  /\ pc = Idle
  /\ result.status = "IOError"
  /\ \E p \in Paths : tmp[p] = Partial /\ IsJson(file[p])

\* C11: an update or delete of an id that is not in the document ends in its
\* first step with NotFound; the document, every backup and temp file, the
\* ledger counter and what list() returns are as before the call.
C11_NotFoundWritesNothing ==
  [][(/\ pc = "entered"
      /\ op.name \in {"update", "delete"}
      /\ ~Protected(op.id, op.protect)
      /\ IsJson(file[op.path])
      /\ \/ op.id < 1
         \/ op.id >= Len(Parse(file[op.path]))
         \/ At(Parse(file[op.path]), op.id) = Null) =>
       /\ pc' = Idle
       /\ result'.call = op.name
       /\ result'.status = "NotFound"
       /\ file' = file /\ bak' = bak /\ tmp' = tmp
       /\ List(Parse(file'[op.path])) = List(Parse(file[op.path]))
       /\ IsJson(file[SystemPath]) =>
            VersionOf(Parse(file'[SystemPath])) = Current]_vars

\* C11 witness: an update failed with NotFound on a document that holds a
\* record and has a backup, next to a ledger that has counted a mutation.
C11_Witness ==
  /\ pc = Idle
  /\ result.call = "update"
  /\ result.status = "NotFound"
  /\ muts >= 1
  /\ IsJson(file[SystemPath])
  /\ \E d \in Docs :
       IsJson(file[d]) /\ IsJson(bak[d]) /\ HeldIds(Parse(file[d])) # {}

\* C12: get(id), update(id, ...) and delete(id, false) end with NotFound
\* exactly when id < 1, id >= the array length or slot id is null; otherwise
\* get returns the record of slot id, and update and delete go on to write.
C12_NotFoundCondition ==
  [][(/\ pc = "entered"
      /\ op.name \in {"get", "update", "delete"}
      /\ ~op.protect
      /\ IsJson(file[op.path])) =>
       LET a == Parse(file[op.path])
           missing == op.id < 1 \/ op.id >= Len(a) \/ At(a, op.id) = Null
       IN /\ result'.call = op.name
          /\ missing <=> (pc' = Idle /\ result'.status = "NotFound")
          /\ (~missing /\ op.name = "get") =>
               /\ pc' = Idle
               /\ result'.status = "ok"
               /\ result'.value = At(a, op.id)
          /\ (~missing /\ op.name # "get") =>
               /\ pc' = "backup"
               /\ result'.status = "pending"]_vars

\* C12 witness: a delete of an id that held a record and was deleted before
\* has been called.
C12_Witness ==
  /\ Entered("delete")
  /\ ~op.protect
  /\ IsJson(file[op.path])
  /\ op.id \in everHeld[op.path]
  /\ op.id < Len(Parse(file[op.path]))
  /\ At(Parse(file[op.path]), op.id) = Null

\* The record r is base overlaid with over, its id forced to id: the keys of
\* both, id from id, then over's value, then base's.
Overlay(r, base, over, id) ==
  /\ DOMAIN r = (DOMAIN base) \cup (DOMAIN over) \cup {"id"}
  /\ \A k \in DOMAIN r :
       r[k] = IF k = "id" THEN Num(id)
              ELSE IF k \in DOMAIN over THEN over[k]
              ELSE base[k]

\* The array after is before with slot id set to r, no other slot touched.
OnlySlot(after, before, id, r) ==
  /\ Len(after) = Len(before)
  /\ At(after, id) = r
  /\ \A j \in 0..(Len(before) - 1) : j # id => At(after, j) = At(before, j)

\* C13: create(data) computes id = the array length and entity = the
\* default record of that id overlaid with the caller's fields, id forced;
\* what it writes to the document is the previous array with entity
\* appended; and it returns {id, entity} with that array on disk.
C13_CreateAppends ==
  [][/\ (Entered("create") /\ pc' = "backup") =>
          LET a == Parse(file[op.path])
              r == result'.value
          IN /\ r.id = Len(a)
             /\ Overlay(r.entity, DefaultFactory(r.id), op.data, r.id)
             /\ wpath' = op.path
             /\ wdata' = a \o <<r.entity>>
     /\ (pc = "rename" /\ op.name = "create" /\ wpath \in Docs
           /\ file'[wpath] # file[wpath]) =>
          /\ Parse(file'[wpath]) = Parse(file[wpath]) \o <<result.value.entity>>
          /\ Len(Parse(file'[wpath])) = result.value.id + 1
     /\ (pc = "return" /\ op.name = "create") =>
          /\ result'.status = "ok"
          /\ result'.value = result.value
          /\ At(Parse(file[op.path]), result.value.id) = result.value.entity]_vars

\* C13 witness: a create whose caller passed another id returns, on a
\* document that held a record before.
C13_Witness ==
  /\ pc = "return"
  /\ op.name = "create"
  /\ "id" \in DOMAIN op.data
  /\ op.data.id # Num(result.value.id)
  /\ result.value.id >= 2
  /\ At(Parse(file[op.path]), 1) # Null
  /\ result.value.entity.name = op.data.name

\* C14: update(id, partial) on an existing record computes the existing
\* record overlaid with partial, id kept; what it writes to the document
\* differs from the array on disk in slot id only; and it returns the merged
\* record.
C14_UpdateMerges ==
  [][/\ (Entered("update") /\ pc' = "backup") =>
          LET a == Parse(file[op.path])
              r == result'.value
          IN /\ Overlay(r, At(a, op.id), op.data, op.id)
             /\ wpath' = op.path
             /\ OnlySlot(wdata', a, op.id, r)
     /\ (pc = "rename" /\ op.name = "update" /\ wpath \in Docs
           /\ file'[wpath] # file[wpath]) =>
          OnlySlot(Parse(file'[wpath]), Parse(file[wpath]), op.id, result.value)
     /\ (pc = "return" /\ op.name = "update") =>
          /\ result'.status = "ok"
          /\ result'.value = result.value
          /\ At(Parse(file[op.path]), op.id) = result.value]_vars

\* C14 witness: update(1, {id: 9, name: "a"}) returns {id: 1, name: "a",
\* value: 10} on a document with a second record.
C14_Witness ==
  /\ pc = "return"
  /\ op.name = "update"
  /\ op.id = 1
  /\ "id" \in DOMAIN op.data
  /\ result.value = [id |-> Num(1), name |-> Str("a"), value |-> Num(10)]
  /\ Len(Parse(file[op.path])) = 3
  /\ At(Parse(file[op.path]), 2) # Null

\* C15: what a delete(id) writes to its document is as long as the document
\* before and holds null in slot id, so that get(id) is NotFound, and list()
\* of it is list() of the document before without the record of that id, the
\* other records in their order.
C15_DeleteNullsSlot ==
  [][(pc = "rename" /\ op.name = "delete" /\ wpath \in Docs
        /\ file'[wpath] # file[wpath]) =>
       LET before == Parse(file[wpath])
           after == Parse(file'[wpath])
       IN /\ Len(after) = Len(before)
          /\ At(after, op.id) = Null
          /\ GetResult(after, op.id).status = "NotFound"
          /\ \A i \in 1..Len(List(after)) : List(after)[i].id # Num(op.id)
          /\ List(after) = SelectSeq(List(before), LAMBDA e : e.id # Num(op.id))
          /\ Len(List(after)) = Len(List(before)) - 1]_vars

\* C15 witness: delete(2) returns and list() holds the record of id 1 only.
C15_Witness ==
  /\ pc = "return"
  /\ op.name = "delete"
  /\ op.id = 2
  /\ At(Parse(file[op.path]), 2) = Null
  /\ Len(List(Parse(file[op.path]))) = 1
  /\ List(Parse(file[op.path]))[1].id = Num(1)

\* C16, as claimed: on a document laid down as [null], the n-th create gets
\* id n + 1.
C16_NthCreatePlusOne ==
  [][(Entered("create") /\ pc' = "backup" /\ seeded[op.path] = <<Null>>) =>
       result'.value.id = (created[op.path] + 1) + 1]_vars

\* C16, amended: on a document laid down as [null], the n-th create to write
\* the document gets id n (the first gets 1), whatever deletes came between;
\* without I/O failures that is the n-th create call.
C16_NthCreate ==
  [][/\ (Entered("create") /\ pc' = "backup" /\ seeded[op.path] = <<Null>>) =>
          result'.value.id = created[op.path] + 1
     /\ (pc = "return" /\ op.name = "create" /\ seeded[op.path] = <<Null>>) =>
          /\ result'.status = "ok"
          /\ result'.value.id = created[op.path]]_vars

\* C16 witness: on a document laid down as [null], the second create returns
\* id 2 after the record of the first was deleted.
C16_Witness ==
  /\ pc = "return"
  /\ op.name = "create"
  /\ seeded[op.path] = <<Null>>
  /\ created[op.path] = 2
  /\ result.value.id = 2
  /\ At(Parse(file[op.path]), 1) = Null

\* C17: no step of any invocation changes System.json in a field other than
\* versionId: every other field stays, with its value, and none is added.
C17_BumpKeepsSiblings ==
  [][IsJson(file[SystemPath]) =>
       /\ IsJson(file'[SystemPath])
       /\ LET before == Parse(file[SystemPath])
              after == Parse(file'[SystemPath])
          IN /\ (DOMAIN after) \ {"versionId"} = (DOMAIN before) \ {"versionId"}
             /\ \A k \in (DOMAIN before) \ {"versionId"} : after[k] = before[k]]_vars

\* C17 witness: the ledger was bumped twice, from a document that had no
\* versionId, and still holds its sibling field.
C17_Witness ==
  /\ pc = Idle
  /\ v0 = 0
  /\ IsJson(file[SystemPath])
  /\ Parse(file[SystemPath]) = [gameTitle |-> Str("g"), versionId |-> Num(2)]
  /\ bak[SystemPath] = Stringify([gameTitle |-> Str("g"), versionId |-> Num(1)])

\* The counter a ledger document stands for: its versionId when that is a
\* number, 0 when it is missing or anything else.
CounterOf(system) ==
  IF "versionId" \in DOMAIN system
    THEN IF system.versionId.type = "number" THEN system.versionId.val ELSE 0
    ELSE 0

\* C18: bump() hands writeJson the document with versionId = old + 1, old
\* the counter of the stored document, and returns that number with the
\* document in place; current() returns the counter of the stored document
\* and changes no file; and where a bump has returned, current() returns what
\* the bump returned.
C18_BumpAndCurrent ==
  [][/\ (Entered("bump") /\ IsJson(file[SystemPath])) =>
          LET old == CounterOf(Parse(file[SystemPath]))
          IN /\ pc' = "backup"
             /\ wpath' = SystemPath
             /\ wdata'.versionId = Num(old + 1)
             /\ result'.value = Num(old + 1)
     /\ (pc = "rename" /\ op.name = "bump" /\ file' # file) =>
          Parse(file'[SystemPath]).versionId = result.value
     /\ (pc = "return" /\ op.name = "bump") =>
          /\ result'.status = "ok"
          /\ result'.value = result.value
          /\ Num(CounterOf(Parse(file'[SystemPath]))) = result'.value
     /\ (Entered("current") /\ IsJson(file[SystemPath])) =>
          /\ pc' = Idle
          /\ result'.status = "ok"
          /\ result'.value = Num(CounterOf(Parse(file[SystemPath])))
          /\ file' = file /\ bak' = bak /\ tmp' = tmp]_vars

\* C18 witness: current() returns 1 after a bump of a document whose
\* versionId was the string "7".
C18_Witness ==
  /\ pc = Idle
  /\ result.call = "current"
  /\ result.status = "ok"
  /\ result.value = Num(1)
  /\ bak[SystemPath] = Stringify([gameTitle |-> Str("g"), versionId |-> Str("7")])
  /\ Parse(file[SystemPath]).versionId = Num(1)

\* The counter stored in System.json.
Stored == CounterOf(Parse(file[SystemPath]))

\* C19, as claimed: the stored versionId never decreases, overlapping
\* invocations included.
C19_CounterMonotonic ==
  [][CounterOf(Parse(file'[SystemPath])) >= Stored]_vars

\* C19, amended: whoever replaces System.json installs the document of a bump
\* in flight, which is the one that bump read with its counter plus 1; the
\* stored versionId then goes up by 1 when System.json was not replaced since
\* that read, and does not decrease when it was replaced once.  (It decreases
\* when it was replaced twice or more: the bump overlapped two others.)
C19_CounterMonotonicUnlessPassedTwice ==
  [][file'[SystemPath] # file[SystemPath] =>
       /\ \E i \in Procs :
            InBump(i) /\ pc[i] = "rename" /\ file'[SystemPath] = Stringify(wdata[i])
       /\ \A i \in Procs :
            (InBump(i) /\ pc[i] = "rename" /\ file'[SystemPath] = Stringify(wdata[i])) =>
              LET after == CounterOf(Parse(file'[SystemPath]))
              IN /\ passed[i] = 0 => after = Stored + 1
                 /\ passed[i] = 1 => after >= Stored]_vars

\* C19 witness: a bump has just replaced a System.json that another bump had
\* replaced since its read, and the counter stands where it stood.
C19_Witness ==
  \E i \in Procs : \E j \in Procs \ {i} :
    /\ pc[i] = "return"
    /\ pc[j] = Idle
    /\ result[j].status = "ok"
    /\ muts = 1
    /\ Stored = v0 + 1
    /\ bak[SystemPath] = file[SystemPath]

\* Invocation i is a create that has read its document and not yet renamed
\* its array in place.
ReadNotWritten(i) ==
  /\ op[i].name = "create"
  /\ wpath[i] \in Docs
  /\ pc[i] \in {"backup", "tmpwrite", "rename"}

\* The array invocation i read: its own array without the record it pushed.
ArrayRead(i) == SubSeq(arr[i], 1, Len(arr[i]) - 1)

\* Both creates have returned, with the same id.
BothReturnedSameId ==
  /\ \A i \in Procs :
       pc[i] = Idle /\ result[i].call = "create" /\ result[i].status = "ok"
  /\ result[1].value.id = result[2].value.id

\* C20: two creates on a document that have both read the same array before
\* either has written hold the same id, the length of that array, each for a
\* record of its own; and when both have returned that id, the slot holds the
\* record of one of them and the record of the other is nowhere in the
\* document.
C20_LostUpdate ==
  /\ (ReadNotWritten(1) /\ ReadNotWritten(2) /\ wpath[1] = wpath[2]
        /\ ArrayRead(1) = ArrayRead(2)) =>
       /\ result[1].value.id = Len(ArrayRead(1))
       /\ result[2].value.id = Len(ArrayRead(2))
       /\ result[1].value.entity # result[2].value.entity
       /\ \A i \in Procs : At(arr[i], result[i].value.id) = result[i].value.entity
  /\ BothReturnedSameId =>
       \A d \in Docs :
         LET a == Parse(file[d])
             id == result[1].value.id
             kept == {i \in Procs : At(a, id) = result[i].value.entity}
         IN /\ Len(a) = id + 1
            /\ Cardinality(kept) = 1
            /\ \A i \in Procs \ kept : \A k \in 0..(Len(a) - 1) :
                 At(a, k) # result[i].value.entity

\* C20 witness: both creates have returned the same id and the document is
\* the array they read with one record more.
C20_Witness ==
  /\ BothReturnedSameId
  /\ \E d \in Docs :
       /\ Len(Parse(file[d])) = Len(seeded[d]) + 1
       /\ SubSeq(Parse(file[d]), 1, Len(seeded[d])) = seeded[d]
  /\ muts = 2

\* ------------------------------------------------ every modification bumps

\* The invocation has renamed its array over the document: it stands at the
\* bump of writeArray line 38, or inside that bump's writeJson.
DocumentModified ==
  /\ op.name \in Mutators
  /\ pc = "bump" \/ (wpath = SystemPath /\ pc \in {"backup", "tmpwrite", "rename", "return"})

\* C21: a create, update or delete that has modified its document leaves
\* versionId incremented when it ends, whether it returns or throws: the counter
\* then stands one above the mutations that returned before it.
C21_EveryModificationBumps ==
  [][(DocumentModified /\ pc' = Idle)
       => /\ IsJson(file'[SystemPath])
          /\ CounterOf(Parse(file'[SystemPath])) = v0 + muts + 1]_vars

\* -------------------------------------------------------- read your writes

\* The document of the DatabaseManager, as a get or list would read it now.
OnDisk(d) == Parse(file[d])

\* C22: right after create(data) has returned {id, entity}, get(id) returns
\* entity and list() contains it; right after update(id, d) has returned r,
\* get(id) returns r: both read the file, which holds the completed write.
C22_ReadYourWrites ==
  \A d \in Docs :
    /\ (pc = Idle /\ result.call = "create" /\ result.status = "ok") =>
         /\ IsJson(file[d])
         /\ ~NotFound(OnDisk(d), result.value.id)
         /\ GetResult(OnDisk(d), result.value.id).status = "ok"
         /\ GetResult(OnDisk(d), result.value.id).value = result.value.entity
         /\ \E i \in 1..Len(List(OnDisk(d))) : List(OnDisk(d))[i] = result.value.entity
    /\ (pc = Idle /\ result.call = "update" /\ result.status = "ok") =>
         /\ IsJson(file[d])
         /\ GetResult(OnDisk(d), result.value.id.val).status = "ok"
         /\ GetResult(OnDisk(d), result.value.id.val).value = result.value

\* An update of record 1 has just returned the merged record, which differs
\* from the record the document was laid down with.
C22_Witness ==
  /\ pc = Idle
  /\ result.call = "update"
  /\ result.status = "ok"
  /\ result.value = [id |-> Num(1), name |-> Str("a"), value |-> Num(10)]
  /\ At(Parse(file["Actors.json"]), 1) = result.value
  /\ bak["Actors.json"] =
       Stringify(<<Null, [id |-> Num(1), name |-> Str("First"), value |-> Num(10)]>>)

\* ----------------------------------------------------- writeJson's leavings

\* The last invocation was a writeJson that returned.
WriteReturned == pc = Idle /\ result.call = "writeJson" /\ result.status = "ok"

\* C23: once a writeJson(path, data) has succeeded, nothing is at path.tmp,
\* from its rename on to its return, whatever lay there before the call.
C23_NoTmpAfterSuccess ==
  /\ (pc = "return" /\ op.name = "writeJson") => tmp[wpath] = Absent
  /\ WriteReturned => tmp[FHPath] = Absent

\* A writeJson has returned on a path where a filesystem call had failed
\* before: the document is in place, the previous one is the backup.
C23_Witness ==
  /\ WriteReturned
  /\ faults = 1
  /\ file[FHPath] = Stringify([name |-> Str("test"), value |-> Num(123)])
  /\ bak[FHPath] = Stringify([name |-> Str("test")])
  /\ tmp[FHPath] = Absent

\* C24: path.bak is created or changed only by the backup step of a writeJson
\* that finds a file at path; a writeJson to a path holding nothing goes on to
\* its temp file with the backup, present or not, as it was.
C24_BackupOnlyOfExisting ==
  [][/\ (bak' # bak) => (pc = "backup" /\ file[wpath] # Absent)
     /\ (pc = "backup" /\ file[wpath] = Absent) => (bak' = bak /\ pc' = "tmpwrite")]_vars

\* A writeJson to a path holding nothing is past its backup step, and the
\* backup of an earlier file still lies beside the path.
C24_Witness ==
  /\ pc = "tmpwrite"
  /\ op.name = "writeJson"
  /\ file[wpath] = Absent
  /\ bak[wpath] = Stringify([name |-> Str("old"), value |-> Num(0)])

\* ---------------------------------------------------------- validated reads

\* x matches the shape of TestSchema: an object whose name is a string and
\* whose value is a number.
MatchesTestSchema(x) ==
  /\ "type" \notin DOMAIN x
  /\ "name" \in DOMAIN x /\ x.name.type = "string"
  /\ "value" \in DOMAIN x /\ x.value.type = "number"

\* A readJson that directly follows a writeJson which returned.
ReadAfterWrite == WriteReturned /\ result'.call = "readJson"

\* C29 as stated: writeJson(path, X) of an X matching S puts X at path, and
\* the readJson(path, S) that follows returns a value equal to X.
C29_RoundTrip ==
  [][/\ (pc = "rename" /\ op.name = "writeJson" /\ pc' = "return")
          => file'[wpath] = Stringify(wdata)
     /\ (ReadAfterWrite /\ MatchesTestSchema(Parse(file[FHPath])))
          => (result'.status = "ok" /\ result'.value = Parse(file[FHPath]))]_vars

\* C29: writeJson(path, X) of an X matching S puts X at path, and the
\* readJson(path, S) that follows returns X cut down to the keys S declares:
\* a value equal to X exactly when X has no key beyond them.
C29_RoundTripOfDeclaredKeys ==
  [][/\ (pc = "rename" /\ op.name = "writeJson" /\ pc' = "return")
          => file'[wpath] = Stringify(wdata)
     /\ (ReadAfterWrite /\ MatchesTestSchema(Parse(file[FHPath])))
          => LET X == Parse(file[FHPath])
             IN /\ result'.status = "ok"
                /\ DOMAIN result'.value = {"name", "value"}
                /\ result'.value.name = X.name
                /\ result'.value.value = X.value
                /\ (result'.value = X) <=> (DOMAIN X = {"name", "value"})]_vars

\* readJson has returned the document written before it, over the test's
\* invalid one, less the key the schema does not declare.
C29_Witness ==
  /\ pc = Idle
  /\ bak[FHPath] = Stringify([name |-> Str("test"), value |-> Str("not a number")])
  /\ result = Returned("readJson", [name |-> Str("test"), value |-> Num(123)])
  /\ file[FHPath] = Stringify([name |-> Str("test"), value |-> Num(123), note |-> Str("n")])

\* C30: readJson(path, S) on a document that lacks a declared field, or holds
\* one of another type, or is no object, throws a validation error and
\* returns nothing; what it returns always matches S.
C30_MismatchThrows ==
  [][(pc = Idle /\ result'.call = "readJson") =>
       /\ (IsJson(file[FHPath]) /\ ~MatchesTestSchema(Parse(file[FHPath])))
            => (result'.status = "ValidationError" /\ result'.value = Null)
       /\ result'.status = "ok" => MatchesTestSchema(result'.value)]_vars

\* readJson has thrown a validation error on the document whose value is a
\* string.
C30_Witness ==
  /\ pc = Idle
  /\ result = Thrown("readJson", "ValidationError")
  /\ file[FHPath] = Stringify([name |-> Str("test"), value |-> Str("not a number")])

\* ------------------------------------------------- validate() and getInfo()

\* The last call was a validate(), which returned.
Validated == result.call = "validate" /\ result.status = "ok"

\* A project file is in the directory under one of its two names.
MarkerPresent == file["game.rmmzproject"] # Absent \/ file["Game.rmmzproject"] # Absent

\* The required data files that are not in the directory.
MissingFiles == {f \in Range(REQUIRED_DATA_FILES) : file[f] = Absent}

C26_ValidIffComplete ==
  /\ Cardinality(Range(REQUIRED_DATA_FILES)) = 14
  /\ Validated =>
       LET errors == result.value.errors
           Times(e) == Cardinality({i \in 1..Len(errors) : errors[i] = e})
       IN /\ result.value.valid <=> (errors = <<>>)
          /\ (errors = <<>>) <=>
               (MarkerPresent /\ file[DataDir] # Absent /\ MissingFiles = {})
          /\ file[DataDir] # Absent =>
               /\ \A f \in Range(REQUIRED_DATA_FILES) :
                    Times("Missing data file: " \o f) = IF f \in MissingFiles THEN 1 ELSE 0
               /\ Times("Missing project file: game.rmmzproject") =
                    IF MarkerPresent THEN 0 ELSE 1
               /\ Len(errors) = Cardinality(MissingFiles) + IF MarkerPresent THEN 0 ELSE 1

\* validate() has returned valid for a complete project whose project file
\* carries the capitalised name only.
C26_Witness ==
  /\ Validated
  /\ result.value.valid
  /\ file["game.rmmzproject"] = Absent
  /\ file["Game.rmmzproject"] # Absent
  /\ MissingFiles = {}

\* C27: getInfo() and validate() return a value on every directory; neither
\* throws.
C27_NeverThrow ==
  result.call \in {"getInfo", "validate"} => result.status = "ok"

\* The entries of the array at path f that are not null; none when f is
\* missing or does not parse.
Records(f) ==
  IF IsJson(file[f])
    THEN {i \in 1..Len(Parse(file[f])) : Parse(file[f])[i] # Null}
    ELSE {}

\* C28: where getInfo() returns, actorCount and itemCount are the numbers of
\* non-null entries of Actors.json and Items.json, the length of list() on
\* them, and 0 for a file that is missing or does not parse; versionId is
\* what current() returns.
C28_CountsAndVersion ==
  (result.call = "getInfo" /\ result.status = "ok") =>
    /\ result.value.actorCount = Cardinality(Records("Actors.json"))
    /\ result.value.itemCount = Cardinality(Records("Items.json"))
    /\ IsJson(file["Actors.json"]) =>
         result.value.actorCount = Len(List(Parse(file["Actors.json"])))
    /\ IsJson(file["Items.json"]) =>
         result.value.itemCount = Len(List(Parse(file["Items.json"])))
    /\ ~IsJson(file["Actors.json"]) => result.value.actorCount = 0
    /\ ~IsJson(file["Items.json"]) => result.value.itemCount = 0
    /\ result.value.versionId = Current

\* getInfo() has returned 1 actor for an array with a deleted record, 0 items
\* for an Items.json cut short, and the counter 5.
C28_Witness ==
  /\ result.call = "getInfo"
  /\ result.status = "ok"
  /\ file["Actors.json"] = Stringify(<<Null, Null, [id |-> Num(2), name |-> Str("a")]>>)
  /\ file["Items.json"] = Partial
  /\ result.value.actorCount = 1
  /\ result.value.itemCount = 0
  /\ result.value.versionId = 5

\* ------------------------------------------------------- list() and search()

\* The pairs of an upper-case letter and its lower-case form.
CasePairs == {<<"H", "h">>, <<"E", "e">>, <<"R", "r">>, <<"O", "o">>}

\* Two characters that are the same but for their case.
SameLetter(c, d) == c = d \/ <<c, d>> \in CasePairs \/ <<d, c>> \in CasePairs

\* Two texts that are the same but for the case of their letters.
SameText(s, t) == Len(s) = Len(t) /\ \A j \in 1..Len(s) : SameLetter(s[j], t[j])

\* text holds part somewhere, case aside.
HoldsIgnoringCase(text, part) ==
  \E at \in 0..(Len(text) - Len(part)) :
    \A j \in 1..Len(part) : SameLetter(text[at + j], part[j])

\* The slots of a whose record has, in one of fields, a string holding query.
MatchingSlots(a, query, fields) ==
  { i \in 2..Len(a) :
      /\ a[i] # Null
      /\ \E k \in 1..Len(fields) :
           /\ fields[k] \in DOMAIN a[i]
           /\ a[i][fields[k]].type = "string"
           /\ HoldsIgnoringCase(a[i][fields[k]].val, query) }

\* The slots of a that hold a record.
RecordSlots(a) == {i \in 1..Len(a) : a[i] # Null}

\* out is the records of a at the slots of S, in increasing slot order.
InSlotOrder(out, a, S) ==
  /\ Len(out) = Cardinality(S)
  /\ \A k \in 1..Len(out) :
       out[k] = a[CHOOSE i \in S : Cardinality({j \in S : j <= i}) = k]

\* C31: search(query, fields) returns, without error, exactly the records
\* that have a string holding query, case aside, in one of fields, in slot
\* order; a field that holds no string matches nothing; and two queries that
\* differ in case only give the same result.
C31_SearchMatches ==
  [][(Entered("search") /\ IsJson(file[op.path])) =>
       LET a == Parse(file[op.path])
       IN /\ pc' = Idle
          /\ result'.call = "search"
          /\ result'.status = "ok"
          /\ InSlotOrder(result'.value, a, MatchingSlots(a, op.data.query, op.data.fields))
          /\ \A q \in Queries :
               SameText(q, op.data.query) => Search(a, q, op.data.fields) = result'.value
          /\ UNCHANGED fsVars]_vars

\* search("hero", ["name"]) has returned Hero and HERO, in that order, and
\* not her.
C31_Witness ==
  /\ pc = Idle
  /\ result.call = "search"
  /\ result.status = "ok"
  /\ file["Actors.json"] = Stringify(<<Null, Hero, HERO, Her>>)
  /\ Len(result.value) = 2
  /\ result.value[1] = Hero
  /\ result.value[2] = HERO

\* C32: list() returns, without error, the records of the document in
\* increasing slot order, as many as it has non-null slots and none for a
\* document of sentinels only; it changes no file, the ledger included.
C32_ListRecords ==
  [][(Entered("list") /\ IsJson(file[op.path])) =>
       LET a == Parse(file[op.path])
       IN /\ pc' = Idle
          /\ result'.call = "list"
          /\ result'.status = "ok"
          /\ InSlotOrder(result'.value, a, RecordSlots(a))
          /\ Len(result'.value) = Cardinality(RecordSlots(a))
          /\ (\A i \in 1..Len(a) : a[i] = Null) => Len(result'.value) = 0
          /\ UNCHANGED fsVars
          /\ Current' = Current]_vars

\* list() has returned the two records on either side of a hole.
C32_Witness ==
  /\ pc = Idle
  /\ result.call = "list"
  /\ result.status = "ok"
  /\ file["Actors.json"] = Stringify(<<Null, Hero, Null, Her>>)
  /\ Len(result.value) = 2
  /\ result.value[1] = Hero
  /\ result.value[2] = Her

\* --------------------------------------------------------- the entity tools

\* C33: delete_entity of id 1 is refused exactly for actors, classes and
\* states: for their files the call ends with the Protected error and every
\* file, System.json included, as it was; for the files of the other five
\* types it hands writeJson the array with slot 1 nulled, and where it
\* returns, slot 1 of the document is null.
C33_ProtectedTypes ==
  [][/\ (Entered("delete") /\ op.id = 1) =>
          IF op.path \in {"Actors.json", "Classes.json", "States.json"}
            THEN /\ pc' = Idle
                 /\ result'.status = "Protected"
                 /\ UNCHANGED fsVars
            ELSE /\ op.path \in {"Skills.json", "Items.json", "Weapons.json",
                                 "Armors.json", "Enemies.json"}
                 /\ (IsJson(file[op.path]) /\ Parse(file[op.path])[2] # Null) =>
                      /\ pc' = "backup"
                      /\ wpath' = op.path
                      /\ wdata' = [Parse(file[op.path]) EXCEPT ![2] = Null]
     /\ (pc = "return" /\ op.name = "delete" /\ op.id = 1) =>
          /\ result'.status = "ok"
          /\ Parse(file'[op.path])[2] = Null
          /\ Parse(file'[SystemPath]).versionId.val > 5]_vars

\* delete_entity('items', 1) has returned with slot 1 of Items.json null,
\* after delete_entity('actors', 1) was refused: Actors.json holds its record.
C33_Witness ==
  /\ pc = Idle
  /\ result.call = "delete"
  /\ result.status = "ok"
  /\ file["Items.json"] = Stringify(<<Null, Null>>)
  /\ file["Actors.json"] = Stringify(<<Null, DefaultFactory(1)>>)
  /\ file["Classes.json"] = Stringify(<<Null, DefaultFactory(1)>>)
  /\ file["States.json"] = Stringify(<<Null, DefaultFactory(1)>>)
  /\ bak["Items.json"] = Stringify(<<Null, DefaultFactory(1)>>)

\* What a handler's catch flags isError: the failures of an invocation.
Failures == {"NoProject", "NotFound", "Protected", "IOError"}

StoredInfos == Parse(file[MapInfosPath])

\* C35: in every state, between the file operations of create_map and
\* delete_map too, every map of the catalogue has its map file on disk.
C35_CatalogueHasFiles ==
  \A i \in 1..(Len(StoredInfos) - 1) :
    At(StoredInfos, i) # Null => file[mapFilename(At(StoredInfos, i).id.val)] # Absent

\* C39: create_map takes id = length of the catalogue, writes that map's
\* file and appends an entry of that id at that index; delete_map of map 1 is
\* refused with every file as it was, and of another map nulls its slot;
\* the stored catalogue never shrinks, has null at 0 and map 1 at 1, and
\* every entry at i has id = i.
C39_MapIds ==
  /\ [][/\ Entered("create_map") =>
             /\ wpath' = mapFilename(Len(StoredInfos))
             /\ result'.value = Num(Len(StoredInfos))
        /\ (pc = "mapinfos" /\ op.name = "create_map") =>
             /\ wpath' = MapInfosPath
             /\ Len(wdata') = Len(StoredInfos) + 1
             /\ SubSeq(wdata', 1, Len(StoredInfos)) = StoredInfos
             /\ At(wdata', Len(StoredInfos)).id = Num(Len(StoredInfos))
        /\ (Entered("delete_map") /\ op.id = 1) =>
             /\ pc' = Idle
             /\ result'.status = "Protected"
             /\ UNCHANGED fsVars
        /\ (op.name = "delete_map" /\ pc \in {"entered", "unlink"} /\ pc' = "backup") =>
             /\ wpath' = MapInfosPath
             /\ Len(wdata') = Len(StoredInfos)
             /\ At(wdata', op.id) = Null
             /\ \A i \in 0..(Len(StoredInfos) - 1) :
                  i # op.id => At(wdata', i) = At(StoredInfos, i)
        /\ Len(Parse(file'[MapInfosPath])) >= Len(StoredInfos)
        /\ \A i \in 1..(Len(StoredInfos) - 1) :
             At(StoredInfos, i) = Null => At(Parse(file'[MapInfosPath]), i) = Null]_vars
  /\ [](/\ At(StoredInfos, 0) = Null
        /\ At(StoredInfos, 1) # Null
        /\ \A i \in 1..(Len(StoredInfos) - 1) :
             At(StoredInfos, i) # Null => At(StoredInfos, i).id = Num(i))

\* create_map has returned id 3 after map 2 was deleted: the catalogue is
\* [null, map 1, null, map 3].
C39_Witness ==
  /\ pc = Idle
  /\ result = Returned("create_map", Num(3))
  /\ Len(StoredInfos) = 4
  /\ At(StoredInfos, 2) = Null
  /\ At(StoredInfos, 3).id = Num(3)
  /\ file[mapFilename(3)] # Absent

\* ---- the event tools (SpecEv)

\* The events of map 1 as stored.
StoredEvents == EventsOf(file[mapFilename(1)])

\* The command list of page pageIndex of event eventId in a map file.
ListOf(content, eventId, pageIndex) == At(At(EventsOf(content), eventId).pages, pageIndex).list

\* The commands of a list that are no end command, in the order of the list.
NonEnd(list) == SelectSeq(list, LAMBDA c : c.code.val # 0)

\* The list is closed by an end command and holds no other.
OneEndLast(list) ==
  /\ Len(list) >= 1
  /\ list[Len(list)].code.val = 0
  /\ \A i \in 1..(Len(list) - 1) : list[i].code.val # 0

\* add_event_commands replaces the map file.
CommandsWritten ==
  /\ op.name = "add_event_commands"
  /\ pc = "rename"
  /\ wpath = op.path
  /\ file' # file

\* C36: whenever add_event_commands replaces the map file, and when it
\* returns, the list of the page it was called on is closed by one end
\* command (code 0) and holds no other command of code 0; in append mode the
\* commands stored before that are no end command come first, in their order,
\* and the newly converted ones, as many as the call reports, after them; in
\* replace mode only the newly converted ones are there.
C36_OneEndCommand ==
  [][/\ CommandsWritten =>
          LET old == ListOf(file[op.path], op.id, op.data.pageIndex)
              new == ListOf(file'[op.path], op.id, op.data.pageIndex)
              kept == IF op.data.append THEN NonEnd(old) ELSE <<>>
          IN /\ OneEndLast(new)
             /\ Len(new) = Len(kept) + result.value.val + 1
             /\ SubSeq(new, 1, Len(kept)) = kept
     /\ (op.name = "add_event_commands" /\ pc = "return" /\ pc' = Idle)
          => /\ result'.status = "ok"
             /\ OneEndLast(ListOf(file'[op.path], op.id, op.data.pageIndex))]_vars

\* add_event_commands has returned from appending erase_event and a wait to
\* the branch of the editor's event: the branch, the two commands, the wait
\* with its default duration, and one end command, the end of the branch's
\* block gone.
C36_Witness ==
  /\ pc = Idle
  /\ result = Returned("add_event_commands", Num(2))
  /\ At(StoredEvents, 1).pages[1].list
       = <<Command(111, 0, <<Num(0)>>), Command(214, 0, <<>>),
           Command(230, 0, <<Num(60)>>), endCommand>>

\* The command cannot be converted: it has no string for a type, or a type
\* that is no case of convertCommand.
Inconvertible(cmd) ==
  \/ "type" \notin DOMAIN cmd
  \/ cmd.type.type # "string"
  \/ cmd.type.val \notin {"show_text", "wait", "erase_event"}

\* The running add_event_commands cannot be carried out on the map as it is
\* stored: the event or the page is missing, or a command of the batch
\* cannot be converted.
Unworkable ==
  /\ op.name = "add_event_commands"
  /\ \/ op.id >= Len(EventsOf(file[op.path]))
     \/ At(EventsOf(file[op.path]), op.id) = Null
     \/ op.data.pageIndex >= Len(At(EventsOf(file[op.path]), op.id).pages)
     \/ \E i \in 1..Len(op.data.commands) : Inconvertible(op.data.commands[i])

\* C37: an add_event_commands whose event or page does not exist, or whose
\* batch holds a command without a string type or of an unknown type,
\* returns an error in its first step and no step of it changes a file or a
\* backup file, so the map document, its .bak and versionId stay as they
\* were, whatever the other commands of the batch are.
C37_AllOrNothing ==
  [][Unworkable =>
       /\ UNCHANGED <<file, bak>>
       /\ pc = "entered"
            => /\ pc' = Idle
               /\ result'.call = "add_event_commands"
               /\ result'.status \in {"NotFound", "PageNotFound", "MissingType",
                                      "UnknownCommand"}]_vars

\* After a change to the map, an add_event_commands has returned the error
\* of an unknown type, which only a batch that starts with a valid wait
\* gives; the ledger stands where the change left it.
C37_Witness ==
  /\ pc = Idle
  /\ result = Thrown("add_event_commands", "UnknownCommand")
  /\ Current = v0 + 1
  /\ bak[mapFilename(1)] # Absent

\* create_event replaces the map file.
EventWritten ==
  /\ op.name = "create_event"
  /\ pc = "rename"
  /\ wpath = op.path
  /\ file' # file

\* Slot k of the events array is the first free one: null or one past the
\* end, with every slot from 1 below it taken.
FirstFree(events, k) ==
  /\ k >= 1
  /\ k <= Len(events)
  /\ k < Len(events) => At(events, k) = Null
  /\ \A j \in 1..(k - 1) : j < Len(events) /\ At(events, j) # Null

\* C38: create_event stores the new event in the first null slot from 1 on
\* of the events array, or one past its end when there is none, and changes
\* no other slot; slot 0 of the stored array is always null, every event
\* stored at slot i has id i, and no step shortens the array.
C38_EventSlots ==
  /\ [][/\ Len(EventsOf(file'[mapFilename(1)])) >= Len(StoredEvents)
        /\ EventWritten =>
             LET old == StoredEvents
                 new == EventsOf(file'[mapFilename(1)])
             IN \E k \in 1..Len(old) :
                  /\ FirstFree(old, k)
                  /\ Len(new) = (IF k = Len(old) THEN k + 1 ELSE Len(old))
                  /\ At(new, k) # Null
                  /\ At(new, k).id = Num(k)
                  /\ result.value = Num(k)
                  /\ \A j \in 0..(Len(old) - 1) : j # k => At(new, j) = At(old, j)]_vars
  /\ [](/\ At(StoredEvents, 0) = Null
        /\ \A i \in 1..(Len(StoredEvents) - 1) :
             At(StoredEvents, i) # Null => At(StoredEvents, i).id = Num(i))

\* The editor's event 1 was deleted and create_event has returned id 1
\* again: the freed slot holds the new event, and the backup the array with
\* the slot freed.
C38_Witness ==
  /\ pc = Idle
  /\ result = Returned("create_event", Num(1))
  /\ StoredEvents = <<Null, Event(1, 0)>>
  /\ IsJson(bak[mapFilename(1)])
  /\ EventsOf(bak[mapFilename(1)]) = <<Null, Null>>

\* ---- create_project (SpecCP)

\* The directory held a project file that validate() accepts when the
\* running create_project was called: the lowercase one, which create_project
\* never writes, is there, or the capitalised one is there before the
\* handler's first step.
FoundWhenCalled ==
  \/ Exists(file, PROJECT_FILES[1])
  \/ pc = "entered" /\ FoundProjectFile(file)

\* C40: when the directory held a project file that validate() accepts,
\* under either of its names, as create_project was called, no step of the
\* call creates, replaces or backs up a file of the directory or changes the
\* current-project handle, and its first step returns an error.
C40_NeverOverwrites ==
  [][(op.name = "create_project" /\ FoundWhenCalled) =>
       /\ UNCHANGED <<file, bak, project>>
       /\ pc = "entered" => (pc' = Idle /\ result' = Thrown("create_project", "Exists"))]_vars

====
